---------------------------- MODULE Spec2Model ----------------------------
(***************************************************************************)
(* Model of the /next-task workflow: task discovery and ranking            *)
(* (skills/discover-tasks), the shared registry of claimed tasks           *)
(* (.claude/tasks.json), the --resume handler with the worktree's         *)
(* checkpoint log (.claude/workflow-status.json, recordStep), and the      *)
(* orchestrator's phases from worktree setup to the handoff to /ship or to *)
(* an abort, and the labels of the options shown to the user               *)
(* (truncateLabel, getPolicyQuestions), and the parsing of the policy      *)
(* answers with the cached source preference (parseAndCachePolicy).        *)
(*                                                                         *)
(* JavaScript strings are sequences of one-character strings, so that      *)
(* toLowerCase, includes, endsWith and String(n) are computed, not assumed.*)
(***************************************************************************)
EXTENDS Integers, Sequences, FiniteSets, TLC

VARIABLES
  \* ---- discovery (one run of the discover-tasks skill) ----
  tasks,            \* the fetched candidate list (Phase 2)
  registry,         \* .claude/tasks.json: [exists, tasks], tasks a sequence of ClaimRecords
  policy,           \* [github, priorityFilter]
  prFile,           \* /tmp/gh-prs.json: [readable, prs]
  dpc,              \* position of the discovery run
  claimedIds,       \* Phase 1
  prLinkedIssues,   \* Phase 2.5
  prFailed,         \* the catch block of Phase 2.5 ran
  available,        \* Phase 3: indices (into tasks) of the unclaimed candidates
  filtered,         \* Phase 3: ... that have no open PR
  prioritized,      \* Phase 3: ... that pass the priority filter
  topTasks,         \* Phase 3: sequence of [idx, score], sorted
  options,          \* Phase 4: the entries presented for selection
  \* ---- workflow instances sharing the registry ----
  ipc,              \* position of each instance
  ioffer,           \* the ids its discovery offered for selection
  itask,            \* state.task of each instance: [id, source]
  isnap,            \* registry.tasks as read inside its claim
  lock,             \* holder of the registry lock, 0 when free
  \* ---- /next-task --resume ----
  rpc,              \* position of the resume handler
  resumeArg,        \* the argument after --resume, <<>> when there is none
  fsPaths,          \* the paths that exist in the file system
  worktree,         \* what findWorktreeToResume returned
  resumePhase,      \* what mapStepToPhase returned, "none" before
  \* ---- the checkpoint log of a worktree ----
  statusFile,       \* .claude/workflow-status.json: [exists, intact, steps, workflow, resume]
  \* ---- the orchestrator of one instance, from the selected task to /ship ----
  wpc,              \* position: between phases, awaiting a worker, halted, ...
  wphase,           \* currentPhase
  implementFlag,    \* --implement was given
  approval,         \* the plan approval: none, pending, approved, rejected
  gates,            \* the two pre-review-gate sub-steps: idle, running, done, failed
  reviewIter,       \* review iterations run
  reviewCfg,        \* policy.maxReviewIterations, 0 when not configured
  dvFails,          \* failed delivery validations so far
  \* ---- the labels of the options shown to the user ----
  lpc,              \* off, input, labelled (truncateLabel), asked (getPolicyQuestions)
  lin,              \* the input: a task number and title, or a cached preference
  lout,             \* the option built: [label, description]
  \* ---- the policy answers and the cached source preference ----
  sourceCache,      \* the preference store of ./source-cache: [preference]
  responses,        \* the answers of the last parseAndCachePolicy call
  outcome,          \* what that call did: [threw, error, policy]
  calls             \* parseAndCachePolicy calls so far

dvars == <<tasks, policy, prFile, dpc, claimedIds, prLinkedIssues, prFailed,
           available, filtered, prioritized, topTasks, options>>
ivars == <<ipc, ioffer, itask, isnap, lock>>
rvars == <<rpc, resumeArg, fsPaths, worktree, resumePhase>>
ovars == <<wpc, wphase, implementFlag, approval, gates, reviewIter, reviewCfg, dvFails>>
wvars == <<statusFile, ovars>>
lvars == <<lpc, lin, lout, sourceCache, responses, outcome, calls>>
vars == <<dvars, registry, ivars, rvars, wvars, lvars>>

-----------------------------------------------------------------------------
(* Bounds of the model *)

MaxTasks == 6
MaxLabels == 2
MaxDelayHours == 1
NumInstances == 2

-----------------------------------------------------------------------------
(* Strings *)

UpperChars == <<"A","B","C","D","E","F","G","H","I","J","K","L","M",
                "N","O","P","Q","R","S","T","U","V","W","X","Y","Z">>
LowerChars == <<"a","b","c","d","e","f","g","h","i","j","k","l","m",
                "n","o","p","q","r","s","t","u","v","w","x","y","z">>
DigitChars == <<"0","1","2","3","4","5","6","7","8","9">>

\* String.prototype.toLowerCase, one character
LowerChar(c) ==
  IF \E i \in 1..26 : UpperChars[i] = c
    THEN LowerChars[CHOOSE i \in 1..26 : UpperChars[i] = c]
    ELSE c

\* String.prototype.toLowerCase
toLowerCase(s) == [i \in 1..Len(s) |-> LowerChar(s[i])]

\* String.prototype.includes(sub)
includes(s, sub) ==
  \E i \in 0..(Len(s) - Len(sub)) : SubSeq(s, i + 1, i + Len(sub)) = sub

\* String.prototype.endsWith(suffix)
endsWith(s, suffix) ==
  /\ Len(suffix) <= Len(s)
  /\ SubSeq(s, Len(s) - Len(suffix) + 1, Len(s)) = suffix

\* String(n) for a non-negative integer n
RECURSIVE StringOfNat(_)
StringOfNat(n) ==
  IF n < 10 THEN <<DigitChars[n + 1]>>
  ELSE StringOfNat(n \div 10) \o <<DigitChars[(n % 10) + 1]>>

UNDEFINED == <<"u","n","d","e","f","i","n","e","d">>

\* the elements of a list
Range(list) == { list[k] : k \in 1..Len(list) }


-----------------------------------------------------------------------------
(* Words used as labels, keywords and ids *)

\* the keywords of LABEL_MAPS and scoreTask
Keyword ==
  [ bug |-> <<"b","u","g">>,
    fix |-> <<"f","i","x">>,
    error |-> <<"e","r","r","o","r">>,
    defect |-> <<"d","e","f","e","c","t">>,
    security |-> <<"s","e","c","u","r","i","t","y">>,
    vulnerability |-> <<"v","u","l","n","e","r","a","b","i","l","i","t","y">>,
    cve |-> <<"c","v","e">>,
    enhancement |-> <<"e","n","h","a","n","c","e","m","e","n","t">>,
    feature |-> <<"f","e","a","t","u","r","e">>,
    improvement |-> <<"i","m","p","r","o","v","e","m","e","n","t">>,
    critical |-> <<"c","r","i","t","i","c","a","l">>,
    p0 |-> <<"p","0">>,
    high |-> <<"h","i","g","h">>,
    p1 |-> <<"p","1">>,
    small |-> <<"s","m","a","l","l">>,
    quick |-> <<"q","u","i","c","k">> ]

\* other label names of fetched issues
Label ==
  [ Bug |-> <<"B","u","g">>,
    bugfix |-> <<"b","u","g","f","i","x">>,
    P0 |-> <<"P","0">>,
    docs |-> <<"d","o","c","s">> ]

-----------------------------------------------------------------------------
(* discover-tasks, Phase 1: claimed ids *)

\* const claimedIds = new Set(claimedTasks.map(t => t.id))
ClaimedIdsOf(reg) == { reg.tasks[i].id : i \in 1..Len(reg.tasks) }

\* String(t.number || t.id); an absent field is 0 (issue numbers start at 1)
TaskId(t) ==
  IF t.number # 0 THEN StringOfNat(t.number)
  ELSE IF t.id # 0 THEN StringOfNat(t.id)
  ELSE UNDEFINED

-----------------------------------------------------------------------------
(* discover-tasks, Phase 2.5: issues that already have an open PR.         *)
(* A PR is given by what the three regular expressions match in it:        *)
(* branchMatch (/-(\d+)$/ on headRefName: a set of at most one id),        *)
(* bodyMatches (closing keywords in the body), titleMatches ((#N) in the   *)
(* title); body is "none" (falsy), "string", or "other" (a truthy value    *)
(* without matchAll, on which pr.body.matchAll throws a TypeError).        *)

\* the body of the for loop, for one PR: [ids, threw]
CollectPr(acc, pr) ==
  LET afterBranch == acc \cup pr.branchMatch IN
  IF pr.body = "other" THEN [ids |-> afterBranch, threw |-> TRUE]
  ELSE LET afterBody == IF pr.body = "string"
                          THEN afterBranch \cup pr.bodyMatches
                          ELSE afterBranch
       IN [ids |-> afterBody \cup pr.titleMatches, threw |-> FALSE]

\* for (const pr of prs) { ... }, stopped by the first exception
RECURSIVE CollectPrs(_, _, _)
CollectPrs(prs, i, acc) ==
  IF i > Len(prs) THEN [ids |-> acc, threw |-> FALSE]
  ELSE LET r == CollectPr(acc, prs[i]) IN
       IF r.threw THEN r ELSE CollectPrs(prs, i + 1, r.ids)

\* the try block: JSON.parse(fs.readFileSync(...)) throws on an unreadable or
\* unparsable file
TryCollect(file) ==
  IF ~file.readable THEN [ids |-> {}, threw |-> TRUE]
  ELSE CollectPrs(file.prs, 1, {})

\* variant: a catch block that keeps what the loop had collected
CatchBlockKeepsCollected(collected) == collected

\* catch (e) { ...; prLinkedIssues = new Set(); }
CatchBlock(collected) == {}

\* Phase 2.5 as a whole: the set is filled for GitHub sources only
CollectPrLinkedIssues(pol, file) ==
  IF ~pol.github THEN [ids |-> {}, failed |-> FALSE]
  ELSE LET r == TryCollect(file) IN
       IF r.threw THEN [ids |-> CatchBlock(r.ids), failed |-> TRUE]
       ELSE [ids |-> r.ids, failed |-> FALSE]

-----------------------------------------------------------------------------
(* discover-tasks, Phase 3: filter and score.  Lists of tasks are lists of *)
(* indices into the candidate list, which keeps the identity of each task. *)

\* Array.prototype.filter on a list of indices; keep is the set of indices the
\* callback returns true for
RECURSIVE FilterIdx(_, _)
FilterIdx(list, keep) ==
  IF list = <<>> THEN <<>>
  ELSE (IF Head(list) \in keep THEN <<Head(list)>> ELSE <<>>)
       \o FilterIdx(Tail(list), keep)

\* variant: claimedIds.has(t.number || t.id), a number looked up in a set of
\* strings, which excludes nothing
AvailableWithoutString(ts, claimed) == [i \in 1..Len(ts) |-> i]

\* const available = tasks.filter(t => !claimedIds.has(String(t.number || t.id)))
Available(ts, claimed) ==
  FilterIdx([i \in 1..Len(ts) |-> i],
            {i \in 1..Len(ts) : TaskId(ts[i]) \notin claimed})

\* variant: the PR-link filter left out
FilteredNothing(ts, avail, linked) == avail

\* const filtered = available.filter(t => ... !prLinkedIssues.has(id) ...)
Filtered(ts, avail, linked) ==
  FilterIdx(avail, {i \in 1..Len(ts) : TaskId(ts[i]) \notin linked})

\* LABEL_MAPS[filter] || []
LABEL_MAPS(filter) ==
  CASE filter = "bugs" -> {Keyword.bug, Keyword.fix, Keyword.error, Keyword.defect}
    [] filter = "security" -> {Keyword.security, Keyword.vulnerability, Keyword.cve}
    [] filter = "features" -> {Keyword.enhancement, Keyword.feature, Keyword.improvement}
    [] OTHER -> {}

\* (t.labels || []).map(l => (l.name || l).toLowerCase()); a label is given by
\* its name, and the array by the set of its elements (only some/includes read it)
LowerLabels(t) == { toLowerCase(l) : l \in t.labels }

\* variant: labels compared without toLowerCase
MatchesPriorityCaseSensitive(t, filter) ==
  \E target \in LABEL_MAPS(filter) : \E l \in t.labels : includes(l, target)

\* the predicate of filterByPriority's tasks.filter
MatchesPriority(t, filter) ==
  \E target \in LABEL_MAPS(filter) : \E l \in LowerLabels(t) : includes(l, target)

filterByPriority(ts, list, filter) ==
  IF filter = "continue" \/ filter = "all" THEN list
  ELSE FilterIdx(list, {i \in 1..Len(ts) : MatchesPriority(ts[i], filter)})

AgeLimitDays == 30
HoursPerDay == 24

\* variant: ageInDays >= 30
scoreTaskAgeInclusive(task) ==
  LET labels == { toLowerCase(l) : l \in task.labels }
      s1 == IF \E l \in labels : includes(l, Keyword.critical) \/ includes(l, Keyword.p0)
              THEN 100 ELSE 0
      s2 == IF \E l \in labels : includes(l, Keyword.high) \/ includes(l, Keyword.p1)
              THEN 50 ELSE 0
      s3 == IF \E l \in labels : includes(l, Keyword.security) THEN 40 ELSE 0
      s4 == IF \E l \in labels : includes(l, Keyword.small) \/ includes(l, Keyword.quick)
              THEN 20 ELSE 0
      s5 == IF task.createdAt
                /\ Keyword.bug \in labels
                /\ task.ageHours >= AgeLimitDays * HoursPerDay
              THEN 10 ELSE 0
  IN s1 + s2 + s3 + s4 + s5

\* variant: the age counts for every dated task, bug or not
scoreTaskAnyAge(task) ==
  LET labels == LowerLabels(task)
      s1 == IF \E l \in labels : includes(l, Keyword.critical) \/ includes(l, Keyword.p0)
              THEN 100 ELSE 0
      s2 == IF \E l \in labels : includes(l, Keyword.high) \/ includes(l, Keyword.p1)
              THEN 50 ELSE 0
      s3 == IF \E l \in labels : includes(l, Keyword.security) THEN 40 ELSE 0
      s4 == IF \E l \in labels : includes(l, Keyword.small) \/ includes(l, Keyword.quick)
              THEN 20 ELSE 0
      s5 == IF task.createdAt /\ task.ageHours > AgeLimitDays * HoursPerDay
              THEN 10 ELSE 0
  IN s1 + s2 + s3 + s4 + s5

\* scoreTask; the age of a task, Date.now() - new Date(task.createdAt), is
\* given in hours
scoreTask(task) ==
  LET labels == LowerLabels(task)
      s1 == IF \E l \in labels : includes(l, Keyword.critical) \/ includes(l, Keyword.p0)
              THEN 100 ELSE 0
      s2 == IF \E l \in labels : includes(l, Keyword.high) \/ includes(l, Keyword.p1)
              THEN 50 ELSE 0
      s3 == IF \E l \in labels : includes(l, Keyword.security) THEN 40 ELSE 0
      s4 == IF \E l \in labels : includes(l, Keyword.small) \/ includes(l, Keyword.quick)
              THEN 20 ELSE 0
      s5 == IF task.createdAt
                /\ Keyword.bug \in labels
                /\ task.ageHours > AgeLimitDays * HoursPerDay
              THEN 10 ELSE 0
  IN s1 + s2 + s3 + s4 + s5

\* variant: an unstable sort, which puts e before the elements it ties with
RECURSIVE InsertSortedUnstable(_, _)
InsertSortedUnstable(sorted, e) ==
  IF sorted = <<>> THEN <<e>>
  ELSE IF e.score - Head(sorted).score < 0
         THEN <<Head(sorted)>> \o InsertSortedUnstable(Tail(sorted), e)
         ELSE <<e>> \o sorted

\* The comparator (a, b) => b.score - a.score puts a before b when it is <= 0.
\* Array.prototype.sort is stable: insert e behind every element that does not
\* have to follow it.
RECURSIVE InsertSorted(_, _)
InsertSorted(sorted, e) ==
  IF sorted = <<>> THEN <<e>>
  ELSE IF e.score - Head(sorted).score <= 0
         THEN <<Head(sorted)>> \o InsertSorted(Tail(sorted), e)
         ELSE <<e>> \o sorted

RECURSIVE SortByScore(_)
SortByScore(list) ==
  IF list = <<>> THEN <<>>
  ELSE InsertSorted(SortByScore(SubSeq(list, 1, Len(list) - 1)), list[Len(list)])

\* prioritized.map(t => ({ ...t, score: scoreTask(t) })).sort(...)
TopTasks(ts, prio) ==
  SortByScore([k \in 1..Len(prio) |->
                 [idx |-> prio[k], score |-> scoreTask(ts[prio[k]])]])

\* the whole of Phase 3
Rank(ts, claimed, linked, filter) ==
  LET avail == Available(ts, claimed)
      filt == Filtered(ts, avail, linked)
      prio == filterByPriority(ts, filt, filter)
  IN [available |-> avail, filtered |-> filt, prioritized |-> prio,
      topTasks |-> TopTasks(ts, prio)]

-----------------------------------------------------------------------------
(* discover-tasks, Phase 4: the options presented *)

TopN == 5

\* Array.prototype.slice(0, n)
Slice0(list, n) == SubSeq(list, 1, IF Len(list) < n THEN Len(list) ELSE n)

\* variant: topTasks.slice(-5), the last five
OptionsLastFive(top) ==
  SubSeq(top, IF Len(top) > TopN THEN Len(top) - TopN + 1 ELSE 1, Len(top))

\* topTasks.slice(0, 5)
Options(top) == Slice0(top, TopN)


-----------------------------------------------------------------------------
(* Inputs of a discovery run *)


Task(number, id, labels, createdAt, ageHours) ==
  [number |-> number, id |-> id, labels |-> labels,
   createdAt |-> createdAt, ageHours |-> ageHours]

\* what a task of a ranked list looks like, apart from its number
Profiles ==
  { [labels |-> {Keyword.critical}, createdAt |-> TRUE, ageHours |-> 5 * HoursPerDay],
    [labels |-> {Keyword.bug}, createdAt |-> TRUE, ageHours |-> 40 * HoursPerDay],
    [labels |-> {Label.docs}, createdAt |-> FALSE, ageHours |-> 0] }

\* candidate lists whose k-th task is issue number k
RankLists ==
  UNION { { [k \in 1..n |-> Task(k, 0, f[k].labels, f[k].createdAt, f[k].ageHours)]
            : f \in [1..n -> Profiles] } : n \in 0..MaxTasks }

LabelVocabulary ==
  { Keyword.bug, Label.Bug, Label.bugfix, Keyword.critical, Label.P0, Keyword.high, Keyword.p1, Keyword.security,
    Keyword.small, Keyword.quick, Keyword.enhancement, Label.docs }

LabelSets == { ls \in SUBSET LabelVocabulary : Cardinality(ls) <= MaxLabels }

\* single candidates: every label set, with and without a creation date, on
\* both sides of the 30-day limit, numbered (GitHub) or with an id only
ScoreLists ==
  { <<Task(nr[1], nr[2], ls, age[1], age[2])>> :
      nr \in { <<1, 0>>, <<0, 2>> },
      ls \in LabelSets,
      age \in { <<FALSE, 0>>, <<TRUE, AgeLimitDays * HoursPerDay>>,
                <<TRUE, AgeLimitDays * HoursPerDay + 1>> } }

\* two candidates, the second one dated and about 30 days old at the time of
\* the run
AgeLists ==
  { <<Task(1, 0, {Label.docs}, FALSE, 0), Task(2, 0, {l}, TRUE, a)>> :
      l \in {Keyword.bug, Keyword.enhancement},
      a \in { AgeLimitDays * HoursPerDay - 1, AgeLimitDays * HoursPerDay,
              AgeLimitDays * HoursPerDay + 1 } }

\* the same candidates d hours later: Date.now() has moved on
Later(ts, d) ==
  [k \in DOMAIN ts |->
     [ts[k] EXCEPT !.ageHours = IF ts[k].createdAt THEN @ + d ELSE @]]

ClaimRecord(id, source, worktreePath, branch) ==
  [id |-> id, source |-> source, worktreePath |-> worktreePath, branch |-> branch]

\* worktree paths and branch names of the registry entries
Path ==
  [wt1 |-> <<".",".","/","w","t","/","1">>,
   wt2 |-> <<".",".","/","w","t","/","2">>,
   wt3 |-> <<".",".","/","w","t","/","1","2">>,
   wt4 |-> <<".",".","/","w","t","/","4">>]
Branch ==
  [fix1 |-> <<"f","i","x","-","1">>,
   fix2 |-> <<"f","i","x","-","2">>,
   fix12 |-> <<"f","i","x","-","1","2">>,
   fix_undefined |-> <<"f","i","x","-">> \o UNDEFINED]

NoRegistry == [exists |-> FALSE, tasks |-> <<>>]

DiscoverRegistries ==
  { NoRegistry,
    [exists |-> TRUE, tasks |-> <<ClaimRecord(StringOfNat(1), "github", Path.wt1, Branch.fix1)>>],
    [exists |-> TRUE, tasks |-> <<ClaimRecord(StringOfNat(2), "github", Path.wt2, Branch.fix2),
                                  ClaimRecord(StringOfNat(3), "gitlab", Path.wt3, Branch.fix12)>>] }

Pr(branchMatch, body, bodyMatches, titleMatches) ==
  [branchMatch |-> branchMatch, body |-> body,
   bodyMatches |-> bodyMatches, titleMatches |-> titleMatches]

PrFiles ==
  { [readable |-> TRUE, prs |-> <<>>],
    [readable |-> FALSE, prs |-> <<>>],
    [readable |-> TRUE, prs |-> <<Pr({StringOfNat(2)}, "string", {StringOfNat(4)}, {})>>],
    [readable |-> TRUE, prs |-> <<Pr({}, "none", {StringOfNat(4)}, {StringOfNat(1)}),
                                  Pr({StringOfNat(2)}, "other", {}, {})>>] }

Policies == [github : BOOLEAN, priorityFilter : {"all", "bugs", "security", "features"}]

\* long candidate lists with few registries and PR files; short lists with
\* every registry, PR file and policy; single candidates of every kind
DiscoverInputs ==
  [tasks : RankLists, registry : {r \in DiscoverRegistries : Len(r.tasks) # 1},
   prFile : {f \in PrFiles : f.readable /\ Len(f.prs) <= 1},
   policy : {q \in Policies : q.github /\ q.priorityFilter = "all"}]
  \cup
  [tasks : {l \in RankLists : Len(l) <= 3}, registry : DiscoverRegistries,
   prFile : PrFiles, policy : Policies]
  \cup
  [tasks : ScoreLists, registry : {r \in DiscoverRegistries : Len(r.tasks) # 1},
   prFile : {f \in PrFiles : f.readable /\ f.prs = <<>>},
   policy : {q \in Policies : q.github}]
  \cup
  [tasks : AgeLists, registry : {NoRegistry},
   prFile : {f \in PrFiles : f.readable /\ f.prs = <<>>},
   policy : {q \in Policies : q.github /\ q.priorityFilter = "all"}]

-----------------------------------------------------------------------------
(* One run of the discover-tasks skill *)

Instances == 1..NumInstances

NoTask == [id |-> <<>>, source |-> "none"]
Null == [kind |-> "null"]

\* the instances and the resume handler at rest
IdleInstances ==
  /\ ipc = [i \in Instances |-> "idle"]
  /\ ioffer = [i \in Instances |-> {}]
  /\ itask = [i \in Instances |-> NoTask]
  /\ isnap = [i \in Instances |-> <<>>]
  /\ lock = 0

\* a taskSource object: { source } with the fields some sources carry; a
\* field that is absent is 0 (projectNumber) or the empty string
TaskSource(source) ==
  [source |-> source, projectNumber |-> 0, owner |-> <<>>,
   type |-> <<>>, tool |-> <<>>, description |-> <<>>]

\* nothing is cached (getPreference() returns null) and no answers are parsed
IdlePolicy ==
  /\ sourceCache = [preference |-> TaskSource("null")]
  /\ responses = [source |-> <<>>]
  /\ outcome = [threw |-> FALSE, error |-> "none", policy |-> [taskSource |-> TaskSource("null")]]
  /\ calls = 0

\* no option is being built
NoOption == [label |-> <<>>, description |-> <<>>]
IdleLabels ==
  /\ lpc = "off"
  /\ lin = [kind |-> "none"]
  /\ lout = NoOption
  /\ IdlePolicy

IdleResume ==
  /\ rpc = "idle"
  /\ resumeArg = <<>>
  /\ fsPaths = {}
  /\ worktree = Null
  /\ resumePhase = "none"

\* no worktree yet, so no .claude/workflow-status.json
NoStatusFile ==
  [exists |-> FALSE, intact |-> TRUE, steps |-> <<>>,
   task |-> [id |-> <<>>, title |-> "null"], git |-> [branch |-> <<>>],
   workflow |-> [lastActivityAt |-> "null", currentPhase |-> "none", other |-> "null"],
   resume |-> [resumeFromStep |-> "none", other |-> "null"]]

\* Promise.all([deslop-work, test-coverage-checker])
SubSteps == {"deslop-work", "test-coverage-checker"}

\* no orchestrator run
IdleOrchestrator ==
  /\ wpc = "off"
  /\ wphase = "none"
  /\ implementFlag = FALSE
  /\ approval = "none"
  /\ gates = [s \in SubSteps |-> "idle"]
  /\ reviewIter = 0
  /\ reviewCfg = 0
  /\ dvFails = 0

IdleWorkflow ==
  /\ statusFile = NoStatusFile
  /\ IdleOrchestrator

InitDiscover ==
  /\ IdleInstances
  /\ IdleLabels
  /\ IdleResume
  /\ IdleWorkflow
  /\ \E in \in DiscoverInputs :
       /\ tasks = in.tasks
       /\ registry = in.registry
       /\ prFile = in.prFile
       /\ policy = in.policy
  /\ dpc = "phase1"
  /\ claimedIds = {}
  /\ prLinkedIssues = {}
  /\ prFailed = FALSE
  /\ available = <<>>
  /\ filtered = <<>>
  /\ prioritized = <<>>
  /\ topTasks = <<>>
  /\ options = <<>>

\* Phase 1: load the claimed tasks from the registry
Phase1 ==
  /\ dpc = "phase1"
  /\ claimedIds' = ClaimedIdsOf(registry)
  /\ dpc' = "phase2_5"
  /\ UNCHANGED <<ivars, rvars, wvars, lvars>>
  /\ UNCHANGED <<tasks, registry, policy, prFile, prLinkedIssues, prFailed,
                 available, filtered, prioritized, topTasks, options>>

\* Phase 2.5: collect the PR-linked issues
Phase2_5 ==
  /\ dpc = "phase2_5"
  /\ LET r == CollectPrLinkedIssues(policy, prFile) IN
       /\ prLinkedIssues' = r.ids
       /\ prFailed' = r.failed
  /\ dpc' = "phase3"
  /\ UNCHANGED <<ivars, rvars, wvars, lvars>>
  /\ UNCHANGED <<tasks, registry, policy, prFile, claimedIds,
                 available, filtered, prioritized, topTasks, options>>

\* Phase 3: filter and score
Phase3 ==
  /\ dpc = "phase3"
  /\ LET r == Rank(tasks, claimedIds, prLinkedIssues, policy.priorityFilter) IN
       /\ available' = r.available
       /\ filtered' = r.filtered
       /\ prioritized' = r.prioritized
       /\ topTasks' = r.topTasks
  /\ dpc' = "phase4"
  /\ UNCHANGED <<ivars, rvars, wvars, lvars>>
  /\ UNCHANGED <<tasks, registry, policy, prFile, claimedIds, prLinkedIssues,
                 prFailed, options>>

\* Phase 4: present the options
Phase4 ==
  /\ dpc = "phase4"
  /\ options' = Options(topTasks)
  /\ dpc' = "presented"
  /\ UNCHANGED <<ivars, rvars, wvars, lvars>>
  /\ UNCHANGED <<tasks, registry, policy, prFile, claimedIds, prLinkedIssues,
                 prFailed, available, filtered, prioritized, topTasks>>

NextDiscover == Phase1 \/ Phase2_5 \/ Phase3 \/ Phase4

SpecDiscover == InitDiscover /\ [][NextDiscover]_vars


-----------------------------------------------------------------------------
(* Workflow instances and the shared registry.  Each instance discovers    *)
(* (reading the registry), selects a task, claims it when its worktree is  *)
(* created, and releases the claim when it ships or is aborted.            *)

Sources == {"github", "gitlab"}

\* the open issues every instance's discovery fetches
Catalog ==
  <<Task(1, 0, {Keyword.bug}, TRUE, 40 * HoursPerDay),
    Task(2, 0, {Keyword.critical}, TRUE, 5 * HoursPerDay)>>

\* the worktree and the branch an instance creates for its task
WorktreeOf(i) == <<".", ".", "/", "w", "t", "/">> \o StringOfNat(i)
BranchOf(i, id) == <<"f", "i", "x", "-">> \o id

InitInstances ==
  /\ IdleInstances
  /\ IdleLabels
  /\ IdleResume
  /\ IdleWorkflow
  /\ registry = NoRegistry
  /\ tasks = Catalog
  /\ policy = [github |-> TRUE, priorityFilter |-> "all"]
  /\ prFile = [readable |-> TRUE, prs |-> <<>>]
  /\ dpc = "off"
  /\ claimedIds = {}
  /\ prLinkedIssues = {}
  /\ prFailed = FALSE
  /\ available = <<>>
  /\ filtered = <<>>
  /\ prioritized = <<>>
  /\ topTasks = <<>>
  /\ options = <<>>

\* what fetching the open issues can return: issues are closed as time passes
Fetches == { SubSeq(Catalog, 1, n) : n \in 1..Len(Catalog) }

\* the ids a discovery run presents (Phases 1, 3 and 4) for the fetched list
Offered(fetched, reg) ==
  LET top == Rank(fetched, ClaimedIdsOf(reg), {}, policy.priorityFilter).topTasks
  IN { TaskId(fetched[e.idx]) : e \in Range(Options(top)) }

\* task discovery of instance i
InstDiscover(i) ==
  /\ ipc[i] = "idle"
  /\ \E fetched \in Fetches :
       ioffer' = [ioffer EXCEPT ![i] = Offered(fetched, registry)]
  /\ ipc' = [ipc EXCEPT ![i] = "offered"]
  /\ UNCHANGED <<dvars, registry, itask, isnap, lock, rvars, wvars, lvars>>

\* "If no tasks found": the run ends, the user may start another
InstNoTasks(i) ==
  /\ ipc[i] = "offered"
  /\ ioffer[i] = {}
  /\ ipc' = [ipc EXCEPT ![i] = "idle"]
  /\ UNCHANGED <<dvars, registry, ioffer, itask, isnap, lock, rvars, wvars, lvars>>

\* Phase 5: workflowState.updateState({ task: { id: String(selectedTask.number),
\* source: policy.taskSource, ... } })
InstSelect(i) ==
  /\ ipc[i] = "offered"
  /\ \E id \in ioffer[i], source \in Sources :
       itask' = [itask EXCEPT ![i] = [id |-> id, source |-> source]]
  /\ ipc' = [ipc EXCEPT ![i] = "selected"]
  /\ UNCHANGED <<dvars, registry, ioffer, isnap, lock, rvars, wvars, lvars>>

\* variant: a claim that takes no lock
LockIgnored(i) == TRUE

\* the registry lock can be taken
LockFree(i) == lock = 0

\* variant: a claim that adds its entry without looking for an existing one
HasClaimUnchecked(snap, t) == FALSE

\* the registry content snap holds a ClaimRecord for (t.source, t.id)
HasClaim(snap, t) ==
  \E k \in 1..Len(snap) : snap[k].id = t.id /\ snap[k].source = t.source

\* claim(id, source, instanceRef), step 1: enter the serialized section
ClaimAcquire(i) ==
  /\ ipc[i] = "selected"
  /\ LockFree(i)
  /\ lock' = i
  /\ ipc' = [ipc EXCEPT ![i] = "claim_locked"]
  /\ UNCHANGED <<dvars, registry, ioffer, itask, isnap, rvars, wvars, lvars>>

\* claim, step 2: read the registry
ClaimRead(i) ==
  /\ ipc[i] = "claim_locked"
  /\ isnap' = [isnap EXCEPT ![i] = registry.tasks]
  /\ ipc' = [ipc EXCEPT ![i] = "claim_read"]
  /\ UNCHANGED <<dvars, registry, ioffer, itask, lock, rvars, wvars, lvars>>

\* claim, step 3: AlreadyClaimed, or write the registry with the new entry (ok)
ClaimWrite(i) ==
  /\ ipc[i] = "claim_read"
  /\ IF HasClaim(isnap[i], itask[i])
       THEN /\ ipc' = [ipc EXCEPT ![i] = "rejected"]
            /\ UNCHANGED registry
       ELSE /\ ipc' = [ipc EXCEPT ![i] = "claimed"]
            /\ registry' = [exists |-> TRUE,
                            tasks |-> Append(isnap[i],
                                ClaimRecord(itask[i].id, itask[i].source,
                                            WorktreeOf(i), BranchOf(i, itask[i].id))) ]
  /\ lock' = 0
  /\ UNCHANGED <<dvars, ioffer, itask, isnap, rvars, wvars, lvars>>

\* AlreadyClaimed: the caller must choose another task
InstRetry(i) ==
  /\ ipc[i] = "rejected"
  /\ ipc' = [ipc EXCEPT ![i] = "idle"]
  /\ itask' = [itask EXCEPT ![i] = NoTask]
  /\ ioffer' = [ioffer EXCEPT ![i] = {}]
  /\ UNCHANGED <<dvars, registry, isnap, lock, rvars, wvars, lvars>>

\* variant: the entries are dropped by id alone, whatever their source
RECURSIVE RemoveClaimById(_, _)
RemoveClaimById(list, t) ==
  IF list = <<>> THEN <<>>
  ELSE (IF Head(list).id = t.id THEN <<>> ELSE <<Head(list)>>)
       \o RemoveClaimById(Tail(list), t)

\* the registry entries without those of (t.source, t.id)
RECURSIVE RemoveClaim(_, _)
RemoveClaim(list, t) ==
  IF list = <<>> THEN <<>>
  ELSE (IF Head(list).id = t.id /\ Head(list).source = t.source
          THEN <<>> ELSE <<Head(list)>>)
       \o RemoveClaim(Tail(list), t)

\* release(id, source), a serialized mutation of the registry
Release(i) ==
  /\ lock = 0
  /\ registry' = [registry EXCEPT !.tasks = RemoveClaim(registry.tasks, itask[i])]

\* "ship removes entry on cleanup"
Ship(i) ==
  /\ ipc[i] = "claimed"
  /\ Release(i)
  /\ ipc' = [ipc EXCEPT ![i] = "shipped"]
  /\ UNCHANGED <<dvars, ioffer, itask, isnap, lock, rvars, wvars, lvars>>

\* --abort: workflowState.abortWorkflow(...), which releases the claim
Abort(i) ==
  /\ ipc[i] = "claimed"
  /\ Release(i)
  /\ ipc' = [ipc EXCEPT ![i] = "aborted"]
  /\ UNCHANGED <<dvars, ioffer, itask, isnap, lock, rvars, wvars, lvars>>

Next ==
  \E i \in Instances :
    \/ InstDiscover(i)
    \/ InstNoTasks(i)
    \/ InstSelect(i)
    \/ ClaimAcquire(i)
    \/ ClaimRead(i)
    \/ ClaimWrite(i)
    \/ InstRetry(i)
    \/ Ship(i)
    \/ Abort(i)

Spec == InitInstances /\ [][Next]_vars

-----------------------------------------------------------------------------
(* /next-task --resume [task/branch/worktree] *)

MaxClaims == 2

\* a hit of findWorktreeToResume: { path, task }, task null for a bare path
Hit(path, task) == [kind |-> "hit", path |-> path, task |-> task]

\* Array.prototype.find: the first index the callback holds for, 0 if none;
\* hits is the set of indices it holds for
FindFirst(list, hits) ==
  IF hits \cap (1..Len(list)) = {} THEN 0
  ELSE CHOOSE k \in hits \cap (1..Len(list)) :
         \A m \in hits \cap (1..Len(list)) : k <= m

\* String.prototype.endsWith(arg) converts its argument to a string
ArgAsString(arg) == IF arg = <<>> THEN UNDEFINED ELSE arg

\* findWorktreeToResume(arg); arg is <<>> when there is no argument (the
\* arguments are split on blanks and filtered, so none is an empty string);
\* fs is the set of existing paths
findWorktreeToResume(reg, arg, fs) ==
  IF ~reg.exists THEN Null
  ELSE IF arg = <<>> /\ Len(reg.tasks) = 1
    THEN Hit(reg.tasks[1].worktreePath, <<reg.tasks[1]>>)
  ELSE
    LET ts == reg.tasks
        byId == FindFirst(ts, {k \in 1..Len(ts) : arg # <<>> /\ ts[k].id = arg})
        byBranch == FindFirst(ts, {k \in 1..Len(ts) :
                       \/ (arg # <<>> /\ ts[k].branch = arg)
                       \/ endsWith(ts[k].branch, ArgAsString(arg))})
    IN IF byId # 0 THEN Hit(ts[byId].worktreePath, <<ts[byId]>>)
       ELSE IF byBranch # 0 THEN Hit(ts[byBranch].worktreePath, <<ts[byBranch]>>)
       ELSE IF arg # <<>> /\ arg \in fs THEN Hit(arg, <<>>)
       ELSE Null

A_x1 == <<"x","-","1">>
A_none == <<"z">>

ResumeRecords ==
  { ClaimRecord(StringOfNat(1), "github", Path.wt1, Branch.fix1),
    ClaimRecord(StringOfNat(12), "github", Path.wt3, Branch.fix12),
    ClaimRecord(StringOfNat(2), "gitlab", Path.wt2, Branch.fix2),
    ClaimRecord(StringOfNat(4), "github", Path.wt4, Branch.fix_undefined) }

\* the registries: none, or up to MaxClaims distinct entries in any order
ResumeRegistries ==
  { NoRegistry } \cup
  { [exists |-> TRUE, tasks |-> l] :
      l \in { q \in UNION { [1..n -> ResumeRecords] : n \in 0..MaxClaims } :
                \A a, b \in 1..Len(q) : a # b => q[a] # q[b] } }

ResumeArgs ==
  { <<>>, StringOfNat(1), StringOfNat(2), StringOfNat(12), Branch.fix1, A_x1,
    Path.wt1, A_none }
ResumePaths == { Path.wt1, Branch.fix1, StringOfNat(2) }

\* function mapStepToPhase(step): the table
stepToPhase ==
  ("worktree-created" :> "exploration") @@
  ("exploration-completed" :> "planning") @@
  ("plan-approved" :> "implementation") @@
  ("implementation-completed" :> "pre-review-gates") @@
  ("deslop-work-completed" :> "review-loop") @@
  ("review-approved" :> "delivery-validation") @@
  ("delivery-validation-passed" :> "docs-update") @@
  ("docs-updated" :> "ship") @@
  ("ready-to-ship" :> "ship")

\* return stepToPhase[step] || 'exploration';
mapStepToPhase(step) ==
  IF step \in DOMAIN stepToPhase THEN stepToPhase[step] ELSE "exploration"

\* what a field that recordStep does not know may hold
Others == {"null", "set"}

\* an entry of steps, as recordStep pushes it
Entry(step, status, result) ==
  [step |-> step, status |-> status,
   completedAt |-> IF status = "completed" THEN "now" ELSE "null",
   result |-> result]

\* a workflow-status.json with the given steps: status.task, status.git,
\* status.steps, status.workflow and status.resume; the fields called other
\* stand for what else a writer has put into workflow and resume
StatusFile(steps) ==
  [exists |-> TRUE, intact |-> TRUE, steps |-> steps,
   task |-> [id |-> StringOfNat(1), title |-> "null"], git |-> [branch |-> Branch.fix1],
   workflow |-> [lastActivityAt |-> IF steps = <<>> THEN "created" ELSE "now",
                 currentPhase |->
                   IF steps = <<>> THEN "none" ELSE steps[Len(steps)].step,
                 other |-> "null"],
   resume |-> [resumeFromStep |->
                   IF steps = <<>> THEN "none" ELSE steps[Len(steps)].step,
               other |-> "null"]]

\* the file cut short by an interrupted write: not parseable, no step readable
Truncated(file) == [file EXCEPT !.intact = FALSE, !.steps = <<>>]

MaxLogLen == 2

Statuses == {"started", "completed", "failed"}
StepNames == DOMAIN stepToPhase \cup {"planning-completed", "pre-review-gates"}
ShortStepNames ==
  {"worktree-created", "exploration-completed", "review-approved", "planning-completed"}

\* the logs a resumed worktree may hold: none, one entry of any kind, or up to
\* MaxLogLen entries of a few kinds
ResumeLogs ==
  { <<>> } \cup
  { <<Entry(n, st, "null")>> : n \in StepNames, st \in Statuses } \cup
  UNION { [1..k -> { Entry(n, st, "null") :
                       n \in ShortStepNames, st \in {"completed", "failed"} }] :
          k \in 2..MaxLogLen }

ResumeStatusFiles ==
  { NoStatusFile } \cup { StatusFile(l) : l \in ResumeLogs }
  \cup { Truncated(StatusFile(<<Entry("worktree-created", "completed", "null")>>)) }

\* the runs of --resume: every registry, argument and set of paths with a
\* one-step log, and every status file for the plain `--resume` and
\* `--resume 1` of one or two claimed worktrees
ResumeInputs ==
  { [registry |-> r, arg |-> a, fs |-> f,
     status |-> StatusFile(<<Entry("exploration-completed", "completed", "null")>>)] :
      r \in ResumeRegistries, a \in ResumeArgs, f \in SUBSET ResumePaths }
  \cup
  { [registry |-> [exists |-> TRUE, tasks |-> ts], arg |-> a, fs |-> {}, status |-> sf] :
      ts \in { <<ClaimRecord(StringOfNat(1), "github", Path.wt1, Branch.fix1)>>,
               <<ClaimRecord(StringOfNat(1), "github", Path.wt1, Branch.fix1),
                 ClaimRecord(StringOfNat(2), "gitlab", Path.wt2, Branch.fix2)>> },
      a \in { <<>>, StringOfNat(1) },
      sf \in ResumeStatusFiles }

InitResume ==
  /\ IdleInstances
  /\ IdleLabels
  /\ \E in \in ResumeInputs :
       /\ registry = in.registry
       /\ resumeArg = in.arg
       /\ fsPaths = in.fs
       /\ statusFile = in.status
  /\ IdleOrchestrator
  /\ rpc = "resume"
  /\ worktree = Null
  /\ resumePhase = "none"
  /\ tasks = <<>>
  /\ policy = [github |-> TRUE, priorityFilter |-> "all"]
  /\ prFile = [readable |-> TRUE, prs |-> <<>>]
  /\ dpc = "off"
  /\ claimedIds = {}
  /\ prLinkedIssues = {}
  /\ prFailed = FALSE
  /\ available = <<>>
  /\ filtered = <<>>
  /\ prioritized = <<>>
  /\ topTasks = <<>>
  /\ options = <<>>

\* Handle --resume: const worktree = await findWorktreeToResume(resumeArg);
\* if (!worktree) { console.log("No worktree found to resume. ..."); return; }
HandleResume ==
  /\ rpc = "resume"
  /\ worktree' = findWorktreeToResume(registry, resumeArg, fsPaths)
  /\ rpc' = IF worktree' = Null THEN "no_worktree" ELSE "found"
  /\ UNCHANGED <<dvars, registry, ivars, resumeArg, fsPaths, resumePhase, wvars, lvars>>

\* Handle --resume, after the worktree is found: read its workflow-status.json,
\* take the last step and map it to the phase to continue from.  statusFile
\* is the file under worktree.path.
\*   no file: console.log("No workflow-status.json found ..."); return;
\*   JSON.parse of a cut file throws SyntaxError;
\*   steps empty: lastStep is undefined and lastStep.step throws TypeError;
\*   else resumePhase = mapStepToPhase(lastStep.step) and the workflow
\*   continues from that phase.
ReadStatus ==
  /\ rpc = "found"
  /\ IF ~statusFile.exists
       THEN rpc' = "no_status" /\ UNCHANGED resumePhase
     ELSE IF ~statusFile.intact
       THEN rpc' = "syntax_error" /\ UNCHANGED resumePhase
     ELSE IF statusFile.steps = <<>>
       THEN rpc' = "type_error" /\ UNCHANGED resumePhase
     ELSE /\ resumePhase' = mapStepToPhase(statusFile.steps[Len(statusFile.steps)].step)
          /\ rpc' = "resumed"
  /\ UNCHANGED <<dvars, registry, ivars, resumeArg, fsPaths, worktree, wvars, lvars>>


-----------------------------------------------------------------------------
(* The orchestrator: Phase 3 (worktree setup) to the handoff to /ship *)

\* recordStep that writes the entry over the last one instead of pushing it
recordStepOverLast(file, stepName, status, result) ==
  [file EXCEPT !.steps = IF @ = <<>> THEN <<Entry(stepName, status, result)>>
                         ELSE [@ EXCEPT ![Len(@)] = Entry(stepName, status, result)],
               !.workflow.lastActivityAt = "now",
               !.workflow.currentPhase = stepName,
               !.resume.resumeFromStep = stepName]

\* recordStep that writes a fresh document from the fields it knows
recordStepRebuilt(file, stepName, status, result) ==
  [StatusFile(Append(file.steps, Entry(stepName, status, result)))
     EXCEPT !.task.id = file.task.id, !.git = file.git]

\* recordStep without "state.resume.resumeFromStep = stepName"
recordStepKeepsResume(file, stepName, status, result) ==
  [file EXCEPT !.steps = Append(@, Entry(stepName, status, result)),
               !.workflow.lastActivityAt = "now",
               !.workflow.currentPhase = stepName]

\* function recordStep(stepName, status, result): parse the file, push the
\* entry, set lastActivityAt, currentPhase and resumeFromStep, write the
\* document back (new Date().toISOString() is "now")
recordStep(file, stepName, status, result) ==
  [file EXCEPT !.steps = Append(@, Entry(stepName, status, result)),
               !.workflow.lastActivityAt = "now",
               !.workflow.currentPhase = stepName,
               !.resume.resumeFromStep = stepName]

\* fs.writeFileSync(statusPath, ...) opens the file with truncation and then
\* writes the text; a process that dies inside it leaves the old document (it
\* died before the open), a cut one, or the new one
CrashOutcomes(old, new) == { old, Truncated(new), new }

\* the write of a checkpoint: it returns and the orchestrator goes on at pc,
\* or the process dies inside it
WriteStatus(new, pc) ==
  \/ /\ statusFile' = new
     /\ wpc' = pc
  \/ /\ new # statusFile
     /\ statusFile' \in CrashOutcomes(statusFile, new)
     /\ wpc' = "crashed"

\* the phases the orchestrator drives once a task is selected, in order
Phases ==
  <<"worktree-setup", "exploration", "planning", "implementation",
    "pre-review-gates", "review-loop", "delivery-validation", "docs-update">>

\* the step each phase records when it completes (the keys of stepToPhase)
DoneStep ==
  ("worktree-setup" :> "worktree-created") @@
  ("exploration" :> "exploration-completed") @@
  ("planning" :> "plan-approved") @@
  ("implementation" :> "implementation-completed") @@
  ("pre-review-gates" :> "deslop-work-completed") @@
  ("review-loop" :> "review-approved") @@
  ("delivery-validation" :> "delivery-validation-passed") @@
  ("docs-update" :> "docs-updated")

\* workflowState.startPhase(name): the checkpoint that enters a phase (the
\* log exists from the worktree on)
startPhase(file, phase) ==
  IF file.exists THEN recordStep(file, phase, "started", "null") ELSE file

\* workflowState.completePhase(result): the checkpoint that exits a phase
completePhase(file, phase, result) ==
  recordStep(file, DoneStep[phase], "completed", result)

\* workflowState.failPhase(reason, context)
failPhase(file, phase, result) ==
  IF file.exists THEN recordStep(file, phase, "failed", result) ELSE file

\* the phase after phase p: the next one of the order, and with --implement
\* ("Skip to implementation after task selection"; the worktree is still set
\* up, the phases between it and implementation are skipped) implementation
NextPhase(p, implement) ==
  IF p = "task-discovery" THEN "worktree-setup"
  ELSE IF p = "worktree-setup" /\ implement THEN "implementation"
  ELSE LET k == CHOOSE i \in 1..Len(Phases) : Phases[i] = p
       IN Phases[k + 1]

DefaultReviewIterations == 3

\* the iteration limit with a default of 5
MaxReviewIterationsDefaultFive(cfg) == IF cfg = 0 THEN 5 ELSE cfg

\* `Max ${policy.maxReviewIterations || 3} iterations.`
MaxReviewIterations(cfg) == IF cfg = 0 THEN DefaultReviewIterations ELSE cfg

\* Phase 10 without the retry: a validation that does not approve halts
Phase10Halts(file, approved) ==
  IF ~approved
    THEN [file |-> failPhase(file, "delivery-validation", "fixInstructions"),
          pc |-> "halted"]
    ELSE [file |-> completePhase(file, "delivery-validation", "deliveryApproved"),
          pc |-> "between"]

\* Phase 10, after the delivery-validator returned result: on !result.approved
\* failPhase(result.reason, { fixInstructions }) and return, the workflow
\* retries from implementation; else completePhase({ deliveryApproved: true })
Phase10(file, approved) ==
  IF ~approved
    THEN [file |-> failPhase(file, "delivery-validation", "fixInstructions"),
          pc |-> "retry"]
    ELSE [file |-> completePhase(file, "delivery-validation", "deliveryApproved"),
          pc |-> "between"]

MaxReviewCfg == 2
MaxValidationFailures == 2

\* the task the instance selected, and the registry entry of its worktree
WTask == [id |-> StringOfNat(1), source |-> "github"]
WClaim == ClaimRecord(StringOfNat(1), "github", Path.wt1, Branch.fix1)

IdleDiscover ==
  /\ tasks = <<>>
  /\ policy = [github |-> TRUE, priorityFilter |-> "all"]
  /\ prFile = [readable |-> TRUE, prs |-> <<>>]
  /\ dpc = "off"
  /\ claimedIds = {}
  /\ prLinkedIssues = {}
  /\ prFailed = FALSE
  /\ available = <<>>
  /\ filtered = <<>>
  /\ prioritized = <<>>
  /\ topTasks = <<>>
  /\ options = <<>>

\* the task is selected (Phase 2 is over); another instance may hold a claim
InitWorkflow ==
  /\ IdleDiscover
  /\ IdleInstances
  /\ IdleLabels
  /\ IdleResume
  /\ registry \in { [exists |-> TRUE, tasks |-> <<>>],
                    [exists |-> TRUE,
                     tasks |-> <<ClaimRecord(StringOfNat(2), "gitlab", Path.wt2, Branch.fix2)>>],
                    [exists |-> TRUE,
                     tasks |-> <<ClaimRecord(StringOfNat(1), "gitlab", Path.wt2, Branch.fix2)>>] }
  /\ statusFile = NoStatusFile
  /\ wpc = "between"
  /\ wphase = "task-discovery"
  /\ implementFlag \in BOOLEAN
  /\ approval = "none"
  /\ gates = [s \in SubSteps |-> "idle"]
  /\ reviewIter = 0
  /\ reviewCfg \in 0..MaxReviewCfg
  /\ dvFails = 0

\* workflowState.startPhase(<next phase>): the phase that follows
\* currentPhase, or implementation again after a failed delivery validation
StartPhase ==
  /\ \/ wpc = "retry"
     \/ wpc = "between" /\ wphase # "docs-update"
  /\ LET p == IF wpc = "retry" THEN "implementation"
              ELSE NextPhase(wphase, implementFlag)
     IN /\ wphase' = p
        /\ WriteStatus(startPhase(statusFile, p), "await")
        /\ gates' = IF p = "pre-review-gates"
                      THEN [s \in SubSteps |-> "running"] ELSE gates
        /\ reviewIter' = IF p = "review-loop" THEN 0 ELSE reviewIter
        /\ approval' = IF p = "planning" THEN "none" ELSE approval
  /\ UNCHANGED <<implementFlag, reviewCfg, dvFails, registry, dvars, ivars, rvars,
            lvars>>

\* Phase 3: the worktree-manager creates the worktree, adds the registry
\* entry and opens the worktree's workflow-status.json
WorktreeCreated ==
  /\ wpc = "await"
  /\ wphase = "worktree-setup"
  /\ registry' = [registry EXCEPT !.tasks = Append(@, WClaim)]
  /\ \E o \in Others :
       statusFile' =
         [StatusFile(<<Entry(DoneStep["worktree-setup"], "completed", "null")>>)
            EXCEPT !.task.title = o, !.workflow.other = o, !.resume.other = o]
  /\ wpc' = "between"
  /\ UNCHANGED <<wphase, implementFlag, approval, gates, reviewIter, reviewCfg,
                 dvFails, dvars, ivars, rvars, lvars>>

\* await Task({...}) returns: the agent of the phase completed it (the
\* planning agent only leaves plan mode on the user's approval)
TaskCompletes ==
  /\ wpc = "await"
  /\ wphase \in {"exploration", "planning", "implementation", "docs-update"}
  /\ wphase = "planning" => approval = "approved"
  /\ WriteStatus(completePhase(statusFile, wphase,
                   IF wphase = "docs-update" THEN "docsUpdated" ELSE "null"),
                 "between")
  /\ UNCHANGED <<wphase, implementFlag, approval, gates, reviewIter, reviewCfg,
                 dvFails, registry, dvars, ivars, rvars, lvars>>

\* await Task({...}) throws: catch (error) { workflowState.failPhase(
\* error.message, { phase: currentPhase }); ... "Workflow Failed at" }
TaskThrows ==
  /\ wpc = "await"
  /\ wphase # "pre-review-gates"
  /\ WriteStatus(failPhase(statusFile, wphase, "error"), "halted")
  /\ UNCHANGED <<wphase, implementFlag, approval, gates, reviewIter, reviewCfg,
                 dvFails, registry, dvars, ivars, rvars, lvars>>

\* Phase 6: the planning agent enters plan mode with a plan (again after a
\* rejected one)
PlanReady ==
  /\ wpc = "await"
  /\ wphase = "planning"
  /\ approval \in {"none", "rejected"}
  /\ approval' = "pending"
  /\ UNCHANGED <<statusFile, wpc, wphase, implementFlag, gates, reviewIter,
                 reviewCfg, dvFails, registry, dvars, ivars, rvars, lvars>>

\* Phase 6: the user answers the plan
UserAnswers(ok) ==
  /\ wpc = "await"
  /\ wphase = "planning"
  /\ approval = "pending"
  /\ approval' = IF ok THEN "approved" ELSE "rejected"
  /\ UNCHANGED <<statusFile, wpc, wphase, implementFlag, gates, reviewIter,
                 reviewCfg, dvFails, registry, dvars, ivars, rvars, lvars>>

\* Phase 8: one of the two tasks given to Promise.all settles; a task is
\* not cancelled when the orchestrator has stopped waiting for it
SubStepSettles(s, ok) ==
  /\ wpc # "crashed"
  /\ gates[s] = "running"
  /\ gates' = [gates EXCEPT ![s] = IF ok THEN "done" ELSE "failed"]
  /\ UNCHANGED <<statusFile, wpc, wphase, implementFlag, approval, reviewIter,
                 reviewCfg, dvFails, registry, dvars, ivars, rvars, lvars>>

\* a join that returns once both tasks have settled, whatever their outcome
PromiseAllSettled ==
  /\ wpc = "await"
  /\ wphase = "pre-review-gates"
  /\ \A s \in SubSteps : gates[s] \in {"done", "failed"}
  /\ WriteStatus(completePhase(statusFile, wphase, "null"), "between")
  /\ UNCHANGED <<wphase, implementFlag, approval, gates, reviewIter, reviewCfg,
                 dvFails, registry, dvars, ivars, rvars, lvars>>

\* await Promise.all([...]) returns: every task is fulfilled
PromiseAllFulfilled ==
  /\ wpc = "await"
  /\ wphase = "pre-review-gates"
  /\ \A s \in SubSteps : gates[s] = "done"
  /\ WriteStatus(completePhase(statusFile, wphase, "null"), "between")
  /\ UNCHANGED <<wphase, implementFlag, approval, gates, reviewIter, reviewCfg,
                 dvFails, registry, dvars, ivars, rvars, lvars>>

\* await Promise.all([...]) throws as soon as one task is rejected; the
\* catch block records the failure
PromiseAllRejected ==
  /\ wpc = "await"
  /\ wphase = "pre-review-gates"
  /\ \E s \in SubSteps : gates[s] = "failed"
  /\ WriteStatus(failPhase(statusFile, wphase, "error"), "halted")
  /\ UNCHANGED <<wphase, implementFlag, approval, gates, reviewIter, reviewCfg,
                 dvFails, registry, dvars, ivars, rvars, lvars>>

\* Phase 9: one iteration of the review-orchestrator; it approves, or goes on,
\* or gives up with IterationLimitExceeded after the last allowed iteration
ReviewIteration(approved) ==
  /\ wpc = "await"
  /\ wphase = "review-loop"
  /\ reviewIter < MaxReviewIterations(reviewCfg)
  /\ reviewIter' = reviewIter + 1
  /\ IF approved
       THEN WriteStatus(completePhase(statusFile, wphase, "approved"), "between")
     ELSE IF reviewIter' = MaxReviewIterations(reviewCfg)
       THEN WriteStatus(failPhase(statusFile, wphase, "IterationLimitExceeded"),
                        "halted")
     ELSE UNCHANGED <<statusFile, wpc>>
  /\ UNCHANGED <<wphase, implementFlag, approval, gates, reviewCfg, dvFails,
                 registry, dvars, ivars, rvars, lvars>>

\* Phase 10: the delivery-validator returned its result
DeliveryValidated(approved) ==
  /\ wpc = "await"
  /\ wphase = "delivery-validation"
  /\ ~approved => dvFails < MaxValidationFailures
  /\ LET out == Phase10(statusFile, approved)
     IN WriteStatus(out.file, out.pc)
  /\ dvFails' = IF approved THEN dvFails ELSE dvFails + 1
  /\ UNCHANGED <<wphase, implementFlag, approval, gates, reviewIter, reviewCfg,
                 registry, dvars, ivars, rvars, lvars>>

\* Handoff to /ship: await Skill({ skill: "ship:ship" }); "ship removes entry
\* on cleanup"
HandoffToShip ==
  /\ wpc = "between"
  /\ wphase = "docs-update"
  /\ registry' = [registry EXCEPT !.tasks = RemoveClaim(@, WTask)]
  /\ wpc' = "shipped"
  /\ UNCHANGED <<statusFile, wphase, implementFlag, approval, gates, reviewIter,
                 reviewCfg, dvFails, dvars, ivars, rvars, lvars>>

\* Handle --resume, "Continue workflow from that phase...": the phase the last
\* step maps to is started, and for 'ship' the run is handed to /ship, which
\* removes the registry entry of the resumed worktree
ContinueWorkflow ==
  /\ rpc = "resumed"
  /\ rpc' = "continued"
  /\ wphase' = resumePhase
  /\ IF resumePhase = "ship"
       THEN /\ registry' = [registry EXCEPT !.tasks =
                             SelectSeq(@, LAMBDA c : c.worktreePath # worktree.path)]
            /\ wpc' = "shipped"
            /\ UNCHANGED statusFile
       ELSE /\ WriteStatus(startPhase(statusFile, resumePhase), "await")
            /\ UNCHANGED registry
  /\ UNCHANGED <<implementFlag, approval, gates, reviewIter, reviewCfg, dvFails,
                 dvars, ivars, resumeArg, fsPaths, worktree, resumePhase, lvars>>

NextResume ==
  \/ HandleResume
  \/ ReadStatus
  \/ ContinueWorkflow

SpecResume == InitResume /\ [][NextResume]_vars

\* --abort: workflowState.abortWorkflow('User requested abort'); the instance
\* is marked aborted, its registry claim is released and the log is kept
AbortWorkflow ==
  /\ wpc \notin {"off", "shipped", "aborted"}
  /\ registry' = [registry EXCEPT !.tasks = RemoveClaim(@, WTask)]
  /\ wpc' = "aborted"
  /\ UNCHANGED <<statusFile, wphase, implementFlag, approval, gates, reviewIter,
                 reviewCfg, dvFails, dvars, ivars, rvars, lvars>>

NextWorkflow ==
  \/ AbortWorkflow
  \/ StartPhase
  \/ WorktreeCreated
  \/ TaskCompletes
  \/ TaskThrows
  \/ PlanReady
  \/ \E ok \in BOOLEAN : UserAnswers(ok)
  \/ \E s \in SubSteps, ok \in BOOLEAN : SubStepSettles(s, ok)
  \/ PromiseAllFulfilled
  \/ PromiseAllRejected
  \/ \E approved \in BOOLEAN : ReviewIteration(approved)
  \/ \E approved \in BOOLEAN : DeliveryValidated(approved)
  \/ HandoffToShip

SpecWorkflow == InitWorkflow /\ [][NextWorkflow]_vars

\* the two sub-agents of Phase 8 are separate tasks that go on running while
\* the orchestrator process lives: a running one settles in the end
SpecWorkflowFair ==
  SpecWorkflow /\ WF_vars(\E s \in SubSteps, ok \in BOOLEAN : SubStepSettles(s, ok))

-----------------------------------------------------------------------------
(* The labels of the options: truncateLabel and getPolicyQuestions *)

\* String.prototype.toUpperCase, one character
UpperChar(c) ==
  IF \E i \in 1..26 : LowerChars[i] = c
    THEN UpperChars[CHOOSE i \in 1..26 : LowerChars[i] = c]
    ELSE c

\* String.prototype.substring(0, n) for 0 <= n
Substring0(str, n) == SubSeq(str, 1, IF n < Len(str) THEN n ELSE Len(str))

\* a title or name of n characters
Name(n) == [i \in 1..n |-> LowerChars[((i - 1) % 26) + 1]]

\* function truncateLabel(num, title): prefix = `#${num}: `,
\* maxLen = 30 - prefix.length, and title.substring(0, maxLen - 1) + '...'
\* for a title longer than maxLen
truncateLabel(num, title) ==
  LET prefix == <<"#">> \o StringOfNat(num) \o <<":", " ">>
      maxLen == 30 - Len(prefix)
  IN IF Len(title) > maxLen
       THEN prefix \o Substring0(title, maxLen - 1) \o <<".", ".", ".">>
       ELSE prefix \o title

\* SOURCE_LABELS, "Source label mapping for proper casing"
SOURCE_LABELS ==
  ("github" :> <<"G","i","t","H","u","b">>) @@
  ("gh-projects" :> <<"G","i","t","H","u","b"," ","P","r","o","j","e","c","t","s">>) @@
  ("gitlab" :> <<"G","i","t","L","a","b">>) @@
  ("local" :> <<"L","o","c","a","l">>) @@
  ("custom" :> <<"C","u","s","t","o","m">>) @@
  ("other" :> <<"O","t","h","e","r">>)

\* the characters of the source names that are not keys of SOURCE_LABELS
SourceChars ==
  ("jira" :> <<"j","i","r","a">>) @@
  ("azure-devops-boards" :> <<"a","z","u","r","e","-","d","e","v","o","p","s","-","b","o","a","r","d","s">>)

\* the string literal that closes a cut label in getPolicyQuestions: in the
\* source file it is the three characters U+00E2 U+20AC U+00A6
CUT_MARK == <<"U+00E2", "U+20AC", "U+00A6">>

LAST_USED == <<" ","(","l","a","s","t"," ","u","s","e","d",")">>
USE_PREVIOUS == <<"U","s","e"," ","y","o","u","r"," ","p","r","e","v","i","o","u","s"," ","c","h","o","i","c","e",":"," ">>

\* cachedLabel of getPolicyQuestions
cachedLabel(cached) ==
  IF cached.source = "custom"
    THEN cached.tool \o <<" ", "(">> \o cached.type \o <<")">>
  ELSE IF cached.source \in DOMAIN SOURCE_LABELS
    THEN SOURCE_LABELS[cached.source]
  ELSE <<UpperChar(SourceChars[cached.source][1])>> \o Tail(SourceChars[cached.source])

\* truncatedLabel of getPolicyQuestions: maxBaseLen = 30 - ' (last used)'.length
truncatedLabel(label) ==
  LET maxBaseLen == 30 - Len(LAST_USED)
  IN IF Len(label) > maxBaseLen
       THEN Substring0(label, maxBaseLen - 1) \o CUT_MARK
       ELSE label

\* getPolicyQuestions: the first of sourceOptions, the cached choice when
\* there is one and 'GitHub Issues' otherwise
getPolicyQuestions(cached) ==
  IF cached.source = "null"
    THEN [label |-> <<"G","i","t","H","u","b"," ","I","s","s","u","e","s">>,
          description |-> <<"U","s","e"," ","g","h"," ","C","L","I"," ","t","o"," ","l","i","s","t"," ","i","s","s","u","e","s">>]
    ELSE [label |-> truncatedLabel(cachedLabel(cached)) \o LAST_USED,
          description |-> USE_PREVIOUS \o cachedLabel(cached)]

MaxTitleLen == 30
MaxToolLen == 16

\* sourceCache.getPreference(): null, a known source, another source, or a
\* custom tool with its type (cli, mcp, skill, file)
CachedPreferences ==
  { [source |-> src, tool |-> <<>>, type |-> <<>>] :
      src \in {"null", "github", "gh-projects", "gitlab", "local", "other",
               "jira", "azure-devops-boards"} }
  \cup
  { [source |-> "custom", tool |-> Name(n), type |-> ty] :
      n \in 1..MaxToolLen,
      ty \in { <<"c","l","i">>, <<"m","c","p">>, <<"s","k","i","l","l">>,
               <<"f","i","l","e">> } }

LabelInputs ==
  { [kind |-> "task", num |-> num, title |-> Name(n)] :
      num \in {1, 42, 123}, n \in 0..MaxTitleLen }
  \cup
  { [kind |-> "cached", cached |-> cp] : cp \in CachedPreferences }

InitLabels ==
  /\ IdleDiscover
  /\ IdleInstances
  /\ IdleResume
  /\ IdleWorkflow
  /\ registry = NoRegistry
  /\ lpc = "input"
  /\ lin \in LabelInputs
  /\ lout = NoOption
  /\ IdlePolicy

\* discover-tasks Phase 4: the label of a task option
TruncateLabel ==
  /\ lpc = "input"
  /\ lin.kind = "task"
  /\ lout' = [label |-> truncateLabel(lin.num, lin.title), description |-> <<>>]
  /\ lpc' = "labelled"
  /\ UNCHANGED <<dvars, registry, ivars, rvars, wvars, lin,
                 sourceCache, responses, outcome, calls>>

\* the policy questions are built
GetPolicyQuestions ==
  /\ lpc = "input"
  /\ lin.kind = "cached"
  /\ lout' = getPolicyQuestions(lin.cached)
  /\ lpc' = "asked"
  /\ UNCHANGED <<dvars, registry, ivars, rvars, wvars, lin,
                 sourceCache, responses, outcome, calls>>

NextLabels ==
  \/ TruncateLabel
  \/ GetPolicyQuestions

SpecLabels == InitLabels /\ [][NextLabels]_vars

-----------------------------------------------------------------------------
(* The policy answers: parseAndCachePolicy and the cached source           *)
(* preference. ./source-cache and ./custom-handler are required by          *)
(* policy-questions.js; the store is a key -> value store that keeps the    *)
(* last-used source configuration under one key.                           *)

\* sourceCache.getPreference(): the value kept, null when nothing is
getPreference(store) == store.preference

\* sourceCache.savePreference(preference): the value is replaced
savePreference(store, preference) == [store EXCEPT !.preference = preference]

\* customHandler.mapTypeSelection: "Normalize type label to internal value
\* (e.g., "CLI Tool" -> "cli")"; the types are the ones cachedLabel shows
mapTypeSelection(label) ==
  IF label = <<"C","L","I"," ","T","o","o","l">> THEN <<"c","l","i">>
  ELSE IF label = <<"M","C","P"," ","S","e","r","v","e","r">> THEN <<"m","c","p">>
  ELSE IF label = <<"S","k","i","l","l">> THEN <<"s","k","i","l","l">>
  ELSE <<"f","i","l","e">>

\* customHandler.buildCustomConfig(type, name): the custom-tool description
buildCustomConfig(type, name) ==
  [TaskSource("custom") EXCEPT !.type = type, !.tool = name]

\* const sourceMap of mapSource ('Custom' and 'Other' map to null)
sourceMap ==
  (<<"G","i","t","H","u","b"," ","I","s","s","u","e","s">> :> TaskSource("github")) @@
  (<<"G","i","t","H","u","b"," ","P","r","o","j","e","c","t","s">> :> TaskSource("gh-projects")) @@
  (<<"G","i","t","L","a","b"," ","I","s","s","u","e","s">> :> TaskSource("gitlab")) @@
  (<<"L","o","c","a","l"," ","t","a","s","k","s",".","m","d">> :> TaskSource("local")) @@
  (<<"C","u","s","t","o","m">> :> TaskSource("null")) @@
  (<<"O","t","h","e","r">> :> TaskSource("null"))

\* function mapSource(selection, customDetails); customDetails is a list of
\* no or one object, and a source of "null" is null
mapSource(selection, customDetails, store) ==
  IF includes(selection, Tail(LAST_USED))
    THEN getPreference(store)
  ELSE IF selection = <<"C","u","s","t","o","m">> /\ customDetails # <<>>
    THEN buildCustomConfig(mapTypeSelection(customDetails[1].type),
                           customDetails[1].name)
  ELSE IF selection = <<"O","t","h","e","r">>
    THEN [TaskSource("other") EXCEPT
            !.description = IF customDetails # <<>>
                              THEN customDetails[1].description ELSE <<>>]
  ELSE IF selection \in DOMAIN sourceMap /\ sourceMap[selection].source # "null"
    THEN sourceMap[selection]
  ELSE TaskSource("github")

\* String.prototype.trim
trim(s) ==
  LET ws == {" ", "\t", "\n"}
      kept == { i \in 1..Len(s) : s[i] \notin ws }
  IN IF kept = {} THEN <<>>
     ELSE SubSeq(s, CHOOSE i \in kept : \A j \in kept : i <= j,
                    CHOOSE i \in kept : \A j \in kept : j <= i)

\* /^[1-9][0-9]*$/.test(rawNum)
IsProjectNumber(rawNum) ==
  /\ rawNum # <<>>
  /\ rawNum[1] \in Range(DigitChars) \ {"0"}
  /\ \A i \in 2..Len(rawNum) : rawNum[i] \in Range(DigitChars)

\* Number(rawNum) of a string of digits
RECURSIVE Number(_)
Number(rawNum) ==
  IF rawNum = <<>> THEN 0
  ELSE 10 * Number(SubSeq(rawNum, 1, Len(rawNum) - 1))
         + ((CHOOSE d \in 1..10 : DigitChars[d] = rawNum[Len(rawNum)]) - 1)

\* /^(@me|[a-zA-Z0-9][a-zA-Z0-9_-]*)$/.test(owner)
IsOwner(owner) ==
  LET alnum == Range(UpperChars) \cup Range(LowerChars) \cup Range(DigitChars)
  IN \/ owner = <<"@","m","e">>
     \/ /\ owner # <<>>
        /\ owner[1] \in alnum
        /\ \A i \in 2..Len(owner) : owner[i] \in alnum \cup {"_", "-"}

\* the guard and the validation of parseAndCachePolicy: the error it throws
\* for these answers and this resolved source, "none" when it throws none
policyError(answers, taskSource) ==
  IF taskSource.source = "null"
    THEN "Cached source preference not found. Please select a source."
  ELSE IF taskSource.source # "gh-projects" THEN "none"
  ELSE IF answers.project # <<>>
    THEN IF ~IsProjectNumber(trim(answers.project[1].number))
           THEN "Invalid project number"
         ELSE IF \/ trim(answers.project[1].owner) = <<>>
                 \/ ~IsOwner(trim(answers.project[1].owner))
           THEN "Invalid project owner"
         ELSE "none"
  ELSE IF taskSource.projectNumber = 0 \/ taskSource.owner = <<>>
    THEN "GitHub Projects source requires project number and owner. Call getProjectQuestions() first."
  ELSE "none"

\* "Cache source preference (unless "other" which is ad-hoc)" saving "other"
\* as well
cachePolicyAlsoOther(taskSource, store) ==
  IF taskSource.source = "gh-projects"
    THEN IF taskSource.projectNumber # 0 /\ taskSource.owner # <<>>
           THEN savePreference(store, taskSource)
           ELSE store
  ELSE savePreference(store, taskSource)

\* "Cache source preference (unless "other" which is ad-hoc)": "For
\* gh-projects, only cache when projectNumber and owner are present"
cachePolicy(taskSource, store) ==
  IF taskSource.source = "gh-projects"
    THEN IF taskSource.projectNumber # 0 /\ taskSource.owner # <<>>
           THEN savePreference(store, taskSource)
           ELSE store
  ELSE IF taskSource.source # "other"
    THEN savePreference(store, taskSource)
  ELSE store

\* parseAndCachePolicy with the owner tested after the caching block
parseAndCachePolicyOwnerTestedLast(answers, store) ==
  LET resolved == mapSource(answers.source, answers.custom, store)
      error == policyError(answers, resolved)
      taskSource ==
        IF resolved.source = "gh-projects" /\ answers.project # <<>>
          THEN [resolved EXCEPT
                  !.projectNumber = Number(trim(answers.project[1].number)),
                  !.owner = trim(answers.project[1].owner)]
          ELSE resolved
      priorityMap ==
        ("All" :> "all") @@ ("Bugs" :> "bugs") @@ ("Security" :> "security")
        @@ ("Features" :> "features")
      stopMap ==
        ("Merged" :> "merged") @@ ("PR Created" :> "pr-created")
        @@ ("Implemented" :> "implemented") @@ ("Deployed" :> "deployed")
        @@ ("Production" :> "production")
      priorityFilter ==
        IF answers.priority \in DOMAIN priorityMap
          THEN priorityMap[answers.priority] ELSE "all"
      stoppingPoint ==
        IF answers.stopPoint \in DOMAIN stopMap
          THEN stopMap[answers.stopPoint] ELSE "merged"
  IN IF error # "none"
       THEN [threw |-> TRUE, error |-> error,
             policy |-> [taskSource |-> TaskSource("null")],
             store |-> IF error = "Invalid project owner"
                         THEN cachePolicy(taskSource, store)
                         ELSE store]
       ELSE [threw |-> FALSE, error |-> "none",
             policy |-> [taskSource |-> taskSource,
                         priorityFilter |-> priorityFilter,
                         stoppingPoint |-> stoppingPoint],
             store |-> cachePolicy(taskSource, store)]

\* function parseAndCachePolicy(responses): what the call does and the store
\* it leaves. A throw leaves the function before the caching block; the
\* follow-up answers are merged into taskSource after both were validated.
parseAndCachePolicy(answers, store) ==
  LET resolved == mapSource(answers.source, answers.custom, store)
      error == policyError(answers, resolved)
      taskSource ==
        IF resolved.source = "gh-projects" /\ answers.project # <<>>
          THEN [resolved EXCEPT
                  !.projectNumber = Number(trim(answers.project[1].number)),
                  !.owner = trim(answers.project[1].owner)]
          ELSE resolved
      priorityMap ==
        ("All" :> "all") @@ ("Bugs" :> "bugs") @@ ("Security" :> "security")
        @@ ("Features" :> "features")
      stopMap ==
        ("Merged" :> "merged") @@ ("PR Created" :> "pr-created")
        @@ ("Implemented" :> "implemented") @@ ("Deployed" :> "deployed")
        @@ ("Production" :> "production")
      priorityFilter ==
        IF answers.priority \in DOMAIN priorityMap
          THEN priorityMap[answers.priority] ELSE "all"
      stoppingPoint ==
        IF answers.stopPoint \in DOMAIN stopMap
          THEN stopMap[answers.stopPoint] ELSE "merged"
  IN IF error # "none"
       THEN [threw |-> TRUE, error |-> error,
             policy |-> [taskSource |-> TaskSource("null")],
             store |-> store]
       ELSE [threw |-> FALSE, error |-> "none",
             policy |-> [taskSource |-> taskSource,
                         priorityFilter |-> priorityFilter,
                         stoppingPoint |-> stoppingPoint],
             store |-> cachePolicy(taskSource, store)]

MaxCalls == 3

\* the answers parseAndCachePolicy is called with: the source selected (one
\* of the options, the option of the cached preference, a stale "(last
\* used)" option or an unknown one), the follow-up answers for GitHub
\* Projects (String(responses.project.number), String(responses.project.owner
\* || '')) and the custom details
Responses(store) ==
  LET offered == getPolicyQuestions(getPreference(store)).label
      numbers == { <<"5">>, <<"4","2">>, <<" ","7"," ">>, <<"0">>, <<"0","5">>,
                   <<"1",".","5">>, <<"a","b","c">>, <<>> }
      owners == { <<"m","y","-","o","r","g">>, <<" ","o","r","g","_","1","\t">>, <<>>,
                  <<"-","x">>, <<"a"," ","b">>, <<"@","y","o","u">> }
      projects ==
        { <<[number |-> n, owner |-> <<"@","m","e">>]>> : n \in numbers }
        \cup { <<[number |-> <<"4","2">>, owner |-> o]>> : o \in owners }
        \cup { <<[number |-> <<"0">>, owner |-> <<>>]>> }
      details ==
        { <<[type |-> ty, name |-> Name(4), description |-> Name(2)]>> :
            ty \in { <<"C","L","I"," ","T","o","o","l">>,
                     <<"M","C","P"," ","S","e","r","v","e","r">> } }
  IN { [source |-> sel, project |-> pr, custom |-> <<>>,
        priority |-> "All", stopPoint |-> "Merged"] :
         sel \in { <<"G","i","t","H","u","b"," ","P","r","o","j","e","c","t","s">>, offered,
                   <<"G","i","t","H","u","b">> \o LAST_USED },
         pr \in projects \cup {<<>>} }
     \cup
     { [source |-> sel, project |-> <<>>, custom |-> cu,
        priority |-> IF cu = <<>> THEN "Bugs" ELSE "Urgent",
        stopPoint |-> IF cu = <<>> THEN "PR Created" ELSE "Later"] :
         sel \in (DOMAIN sourceMap) \cup { offered, <<"J","i","r","a">> },
         cu \in details \cup {<<>>} }

InitPolicy ==
  /\ IdleDiscover
  /\ IdleInstances
  /\ IdleResume
  /\ IdleWorkflow
  /\ registry = NoRegistry
  /\ lpc = "off"
  /\ lin = [kind |-> "none"]
  /\ lout = NoOption
  /\ IdlePolicy

\* one call of parseAndCachePolicy(responses): it returns the policy or throws
ParseAndCachePolicy ==
  /\ calls < MaxCalls
  /\ \E answers \in Responses(sourceCache) :
       LET done == parseAndCachePolicy(answers, sourceCache)
       IN /\ responses' = answers
          /\ outcome' = [threw |-> done.threw, error |-> done.error,
                         policy |-> done.policy]
          /\ sourceCache' = done.store
  /\ calls' = calls + 1
  /\ UNCHANGED <<dvars, registry, ivars, rvars, wvars, lpc, lin, lout>>

SpecPolicy == InitPolicy /\ [][ParseAndCachePolicy]_vars

-----------------------------------------------------------------------------
(* Properties of discovery *)

Ranked == dpc \in {"phase4", "presented"}
RankedIdx == { topTasks[k].idx : k \in 1..Len(topTasks) }
Min(a, b) == IF a < b THEN a ELSE b

\* C3: no task of the ranked output (topTasks, and the options cut from it) has
\* an id that is in the claimed set built from the registry's ClaimRecords.
C3_NoClaimedInRanked ==
  \A e \in Range(topTasks) \cup Range(options) :
    \A k \in 1..Len(registry.tasks) :
      registry.tasks[k].id # TaskId(tasks[e.idx])

C3_Witness ==
  /\ dpc = "presented"
  /\ options # <<>>
  /\ \E i \in 1..Len(tasks) : TaskId(tasks[i]) \in ClaimedIdsOf(registry)

\* C4: the ranked output holds every task that survived the filters exactly
\* once, is descending by score, and tasks of equal score keep the relative
\* order they had in the candidate list.
C4_SortedStable ==
  Ranked =>
    /\ Len(topTasks) = Len(prioritized)
    /\ RankedIdx = Range(prioritized)
    /\ \A a, b \in 1..Len(topTasks) :
         a < b =>
           /\ topTasks[a].score >= topTasks[b].score
           /\ topTasks[a].score = topTasks[b].score => topTasks[a].idx < topTasks[b].idx

C4_Witness ==
  /\ dpc = "presented"
  /\ \E a, b, c \in 1..Len(topTasks) :
       /\ a < b /\ b < c
       /\ topTasks[a].score = topTasks[b].score
       /\ topTasks[b].score > topTasks[c].score
  /\ \E a, b \in 1..Len(topTasks) : a < b /\ topTasks[a].idx > topTasks[b].idx

\* a label of the task, in lower case, contains one of the words
HasLabelWith(t, words) ==
  \E l \in t.labels : \E w \in words : includes(toLowerCase(l), w)

\* the score the scoring table gives
TableScore(t) ==
  (IF HasLabelWith(t, {Keyword.critical, Keyword.p0}) THEN 100 ELSE 0)
  + (IF HasLabelWith(t, {Keyword.high, Keyword.p1}) THEN 50 ELSE 0)
  + (IF HasLabelWith(t, {Keyword.security}) THEN 40 ELSE 0)
  + (IF HasLabelWith(t, {Keyword.small, Keyword.quick}) THEN 20 ELSE 0)
  + (IF (\E l \in t.labels : toLowerCase(l) = Keyword.bug)
        /\ t.createdAt /\ t.ageHours > 30 * 24 THEN 10 ELSE 0)

ScenarioTasks ==
  <<Task(1, 0, {Keyword.bug}, TRUE, 40 * 24), Task(2, 0, {Keyword.critical}, TRUE, 5 * 24)>>

\* C5: the score of every ranked task is the sum of +100 (a label with critical
\* or p0), +50 (high or p1), +40 (security), +20 (small or quick) and +10 (a
\* label bug and more than 30 days old), labels compared in lower case, and
\* nothing else; and candidates [1: bug, 40 days old; 2: critical] with nothing
\* claimed or linked and filter all rank as [2 with 100, 1 with 10].
C5_ScoreTable ==
  /\ \A e \in Range(topTasks) : e.score = TableScore(tasks[e.idx])
  /\ ( /\ Ranked
       /\ tasks = ScenarioTasks
       /\ registry.tasks = <<>>
       /\ prLinkedIssues = {}
       /\ policy.priorityFilter = "all" )
     => topTasks = <<[idx |-> 2, score |-> 100], [idx |-> 1, score |-> 10]>>

C5_Witness ==
  /\ dpc = "presented"
  /\ tasks = ScenarioTasks
  /\ registry.tasks = <<>>
  /\ policy.priorityFilter = "all"
  /\ Len(topTasks) = 2

\* C6: the options are at most 5, they are the first min(5, n) entries of the
\* sorted list of the n surviving tasks, and no surviving task left out has a
\* higher score than a presented one.
C6_TopFive ==
  dpc = "presented" =>
    /\ Len(options) = Min(5, Len(prioritized))
    /\ \A k \in 1..Len(options) : options[k] = topTasks[k]
    /\ \A i \in Range(prioritized) :
         (\A o \in Range(options) : o.idx # i) =>
            \A o \in Range(options) : TableScore(tasks[i]) <= o.score

C6_Witness ==
  /\ dpc = "presented"
  /\ Len(prioritized) > 5
  /\ topTasks[6].score = options[5].score
  /\ options[1].score > options[5].score

\* the words of a priority category
CategoryWords(filter) ==
  IF filter = "bugs" THEN {Keyword.bug, Keyword.fix, Keyword.error, Keyword.defect}
  ELSE IF filter = "security" THEN {Keyword.security, Keyword.vulnerability, Keyword.cve}
  ELSE {Keyword.enhancement, Keyword.feature, Keyword.improvement}

Increasing(list) == \A a, b \in 1..Len(list) : a < b => list[a] < list[b]

\* C7, as stated: with filter all the list is unchanged, and with bugs,
\* security or features a task is kept if and only if one of its labels
\* contains, as a substring, a keyword of the category.
C7_AsStated ==
  Ranked =>
    IF policy.priorityFilter = "all" THEN prioritized = filtered
    ELSE /\ Range(prioritized) \subseteq Range(filtered)
         /\ Increasing(prioritized)
         /\ \A i \in Range(filtered) :
              i \in Range(prioritized) <=>
                \E l \in tasks[i].labels :
                  \E w \in CategoryWords(policy.priorityFilter) : includes(l, w)

\* C7, amended: with filter all the list is unchanged, and with bugs, security
\* or features a task is kept, in its place, if and only if one of its labels,
\* converted to lower case, contains a keyword of the category.
C7_FilterLowerCase ==
  Ranked =>
    IF policy.priorityFilter = "all" THEN prioritized = filtered
    ELSE /\ Range(prioritized) \subseteq Range(filtered)
         /\ Increasing(prioritized)
         /\ \A i \in Range(filtered) :
              i \in Range(prioritized) <=>
                HasLabelWith(tasks[i], CategoryWords(policy.priorityFilter))

C7_Witness ==
  /\ dpc = "presented"
  /\ policy.priorityFilter = "bugs"
  /\ \E i \in Range(prioritized) :
       /\ Label.Bug \in tasks[i].labels
       /\ \A l \in tasks[i].labels : ~includes(l, Keyword.bug)

\* C8: no task of the ranked output has an id that is in the in-flight set
\* (the issues found to have an open PR).
C8_NoInFlightInRanked ==
  \A e \in Range(topTasks) \cup Range(options) :
    TaskId(tasks[e.idx]) \notin prLinkedIssues

C8_Witness ==
  /\ dpc = "presented"
  /\ options # <<>>
  /\ \E i \in Range(available) : TaskId(tasks[i]) \in prLinkedIssues

\* C9: when the PR file cannot be read or parsed (or processing it throws),
\* discovery goes on with an empty in-flight set, whatever had been collected
\* before the error, and ranks as it would with no PR-linked issue at all.
C9_FailOpen ==
  prFailed =>
    /\ prLinkedIssues = {}
    /\ dpc \in {"phase3", "phase4", "presented"}
    /\ Ranked => /\ filtered = available
                 /\ topTasks = Rank(tasks, ClaimedIdsOf(registry), {},
                                    policy.priorityFilter).topTasks

C9_Witness ==
  /\ dpc = "presented"
  /\ prFailed
  /\ TryCollect(prFile).ids # {}
  /\ \E e \in Range(options) : TaskId(tasks[e.idx]) \in TryCollect(prFile).ids


-----------------------------------------------------------------------------
(* Properties of the registry *)

InClaim(i) == ipc[i] \in {"claim_locked", "claim_read"}
Terminated(i) == ipc[i] \in {"shipped", "aborted"}

\* C1: in every reachable state of the registry, under any interleaving of the
\* instances' claims and releases, there is at most one ClaimRecord for each
\* (source, id).
C1_OneClaimPerKey ==
  \A a, b \in 1..Len(registry.tasks) :
    (/\ registry.tasks[a].id = registry.tasks[b].id
     /\ registry.tasks[a].source = registry.tasks[b].source) => a = b

C1_Witness ==
  \E i, j \in Instances :
    /\ Terminated(i)
    /\ ipc[j] = "claimed"
    /\ itask[i] = itask[j]
    /\ Len(registry.tasks) = 1

\* C2: of the instances that claim the same (source, id), at most one holds it
\* (returned ok) at a time and every other one returned AlreadyClaimed because
\* of an instance whose claim returned ok; the read-modify-write of one claimer
\* is never interleaved with another's: no two instances are inside it at
\* once and the registry does not change between its read and its write.
C2_ExclusiveClaim ==
  /\ \A i, j \in Instances : InClaim(i) /\ InClaim(j) => i = j
  /\ \A i \in Instances : ipc[i] = "claim_read" => registry.tasks = isnap[i]
  /\ \A i, j \in Instances :
       ipc[i] = "claimed" /\ ipc[j] = "claimed" /\ itask[i] = itask[j] => i = j
  /\ \A i \in Instances :
       ipc[i] = "claimed" =>
         \E k \in 1..Len(registry.tasks) :
           /\ registry.tasks[k].id = itask[i].id
           /\ registry.tasks[k].source = itask[i].source
           /\ registry.tasks[k].worktreePath = WorktreeOf(i)
  /\ \A i \in Instances :
       ipc[i] = "rejected" =>
         \E j \in Instances \ {i} :
           itask[j] = itask[i] /\ (ipc[j] = "claimed" \/ Terminated(j))

C2_Witness ==
  \E i, j \in Instances :
    /\ ipc[i] = "claimed"
    /\ ipc[j] = "rejected"
    /\ itask[i] = itask[j]

-----------------------------------------------------------------------------
(* Properties of --resume *)

\* the first registry entry the predicate holds for, as a hit; Null if none
FirstEntry(hits) ==
  IF hits = {} THEN Null
  ELSE LET k == CHOOSE m \in hits : \A n \in hits : m <= n
       IN Hit(registry.tasks[k].worktreePath, <<registry.tasks[k]>>)

IdEntries == { k \in 1..Len(registry.tasks) : registry.tasks[k].id = resumeArg }
BranchEntries ==
  { k \in 1..Len(registry.tasks) :
      \/ registry.tasks[k].branch = resumeArg
      \/ endsWith(registry.tasks[k].branch, resumeArg) }

\* the resolution order: id, then branch, then path, else null
Resolution ==
  IF IdEntries # {} THEN FirstEntry(IdEntries)
  ELSE IF BranchEntries # {} THEN FirstEntry(BranchEntries)
  ELSE IF resumeArg \in fsPaths THEN Hit(resumeArg, <<>>)
  ELSE Null

\* C10: given a non-empty argument, findWorktreeToResume returns the first hit
\* of: a registry entry whose id equals the argument, then a registry entry
\* whose branch equals or ends with the argument, then the argument as an
\* existing path; a later rule is used only when no earlier one matches, and
\* null is returned when none matches.
C10_ResolutionOrder ==
  (rpc # "resume" /\ resumeArg # <<>>) => worktree = Resolution


\* C11: --resume with no argument while the registry holds more than one
\* active claim fails explicitly: no registry entry is chosen as the resume
\* target (and nothing is read from or written to a worktree's log).
C11_AmbiguousResume ==
  (rpc # "resume" /\ resumeArg = <<>> /\ Len(registry.tasks) > 1) =>
     /\ worktree = Null
     /\ rpc = "no_worktree"
     /\ resumePhase = "none"

\* the last entry of the log
LastStep == statusFile.steps[Len(statusFile.steps)]

\* C12: the workflow is resumed at a phase only when the last step's name is
\* in the step-to-phase table, and then at the phase the table gives; a step
\* name that is not in the table is an error, never a default phase.
C12_UnknownStepIsError ==
  rpc = "resumed" =>
     /\ LastStep.step \in DOMAIN stepToPhase
     /\ resumePhase = stepToPhase[LastStep.step]

\* the checkpoints of the canonical phase order, as the table lists them
CanonicalSteps ==
  <<"worktree-created", "exploration-completed", "plan-approved",
    "implementation-completed", "deslop-work-completed", "review-approved",
    "delivery-validation-passed", "docs-updated", "ready-to-ship">>

RECURSIVE CompletedSteps(_)
CompletedSteps(steps) ==
  IF steps = <<>> THEN <<>>
  ELSE (IF Head(steps).status = "completed" THEN <<Head(steps).step>> ELSE <<>>)
       \o CompletedSteps(Tail(steps))

IsPrefix(a, b) == Len(a) <= Len(b) /\ SubSeq(b, 1, Len(a)) = a

\* C13: the workflow is continued from a log only if the log has steps and
\* the subsequence of its completed entries is a prefix of the canonical
\* order; any other log makes the resume fail, and the log is left as it was.
C13_CorruptStateOnLoad ==
  rpc = "resumed" =>
     /\ statusFile.steps # <<>>
     /\ IsPrefix(CompletedSteps(statusFile.steps), CanonicalSteps)

-----------------------------------------------------------------------------
(* Properties of the orchestrator and its checkpoint log *)

Steps == statusFile.steps
Stopped == wpc \in {"halted", "crashed", "aborted"}
CountSteps(step, status) ==
  Cardinality({ k \in 1..Len(Steps) : Steps[k].step = step /\ Steps[k].status = status })

\* C14: recordStep is all-or-nothing: when the process dies during a
\* recordStep the persisted log is the complete old document or the complete
\* new one, never a partial or cut one.
C14_AllOrNothing ==
  wpc = "crashed" => statusFile.intact

\* C15: the log is append-only: every recordStep call that returns leaves a
\* log one entry longer, the new entry at the end and every earlier entry
\* unmodified at its position.
C15_AppendOnly ==
  [][ (statusFile.exists /\ statusFile' # statusFile /\ wpc' # "crashed") =>
        /\ statusFile'.intact
        /\ Len(statusFile'.steps) = Len(statusFile.steps) + 1
        /\ SubSeq(statusFile'.steps, 1, Len(statusFile.steps)) = statusFile.steps
    ]_vars

C15_Witness ==
  /\ wpc = "shipped"
  /\ Len(Steps) > 12

\* the phase before p in the canonical order
PhaseBefore(p) ==
  LET k == CHOOSE i \in 1..Len(Phases) : Phases[i] = p IN Phases[k - 1]

\* C16: whatever the flags, every phase that is started in the log has, as the
\* latest checkpoint of the phase before it, a completed one: no phase is
\* started while its predecessor is unstarted, in progress or failed.
C16_PredecessorCompleted ==
  \A k \in 1..Len(Steps) :
    (Steps[k].status = "started" /\ Steps[k].step \in Range(Tail(Phases))) =>
       LET pred == PhaseBefore(Steps[k].step)
           js == { j \in 1..(k - 1) : Steps[j].step \in {pred, DoneStep[pred]} }
       IN /\ js # {}
          /\ \A j \in js : (\A i \in js : i <= j) => Steps[j].status = "completed"

\* C17: a delivery validation that does not approve is recorded as failed with
\* the fix instructions and does not halt: implementation is entered again and
\* the later phases run again, so that a shipped instance has started
\* implementation and each later phase once more than validation failed (one
\* re-entry when it failed once); a failed checkpoint of any other kind is the
\* last entry of a stopped (halted, crashed or aborted) machine.
C17_ValidationRetry ==
  /\ \A k \in 1..Len(Steps) :
       Steps[k].status = "failed" =>
         IF Steps[k].step = "delivery-validation" /\ Steps[k].result # "error"
           THEN /\ Steps[k].result = "fixInstructions"
                /\ k < Len(Steps) => Steps[k + 1] = Entry("implementation", "started", "null")
                /\ k = Len(Steps) => wpc \in {"retry", "crashed", "aborted"}
           ELSE k = Len(Steps) /\ Stopped
  /\ wpc = "retry" =>
       Steps[Len(Steps)] = Entry("delivery-validation", "failed", "fixInstructions")
  /\ wpc = "shipped" =>
       \A p \in {"implementation", "pre-review-gates", "review-loop", "delivery-validation"} :
         CountSteps(p, "started") = 1 + CountSteps("delivery-validation", "failed")

C17_Witness ==
  /\ wpc = "shipped"
  /\ CountSteps("delivery-validation", "failed") = 1
  /\ CountSteps("implementation", "started") = 2

\* C18: the review loop runs at most the configured number of iterations, 3
\* when none is configured; IterationLimitExceeded is recorded only after
\* that many iterations, it is the last entry of a stopped machine whose
\* registry claim is still there unless the user aborted, and delivery validation is only started
\* right after an approved review.
C18_ReviewBounded ==
  LET max == IF reviewCfg = 0 THEN 3 ELSE reviewCfg
  IN /\ reviewIter <= max
     /\ \A k \in 1..Len(Steps) :
          Steps[k].result = "IterationLimitExceeded" =>
            /\ Steps[k].step = "review-loop" /\ Steps[k].status = "failed"
            /\ k = Len(Steps)
            /\ Stopped
            /\ reviewIter = max
            /\ wpc # "aborted" => WClaim \in Range(registry.tasks)
     /\ \A k \in 1..Len(Steps) :
          Steps[k] = Entry("delivery-validation", "started", "null") =>
            k > 1 /\ Steps[k - 1] = Entry("review-approved", "completed", "approved")

C18_Witness ==
  /\ wpc = "halted"
  /\ reviewCfg = 0
  /\ reviewIter = 3
  /\ Steps[Len(Steps)].result = "IterationLimitExceeded"

\* C19: implementation is started only after the plan was approved: the
\* approval has been given and plan-approved is in the log before it.
C19_ApprovalBeforeImplementation ==
  \A k \in 1..Len(Steps) :
    Steps[k] = Entry("implementation", "started", "null") =>
      /\ approval = "approved"
      /\ \E j \in 1..(k - 1) : Steps[j].step = "plan-approved"

\* C20: the machine leaves pre-review-gates, to review-loop or to a failure
\* state, only after both sub-steps have finished.
C20_JoinBoth ==
  (wphase = "pre-review-gates" /\ wpc \in {"between", "halted"}) =>
     \A s \in SubSteps : gates[s] \in {"done", "failed"}

\* C21: when one of the two pre-review-gate sub-steps fails, the phase does not
\* complete and the review loop is not started: the machine stays in
\* pre-review-gates and, once it has halted, the last checkpoint is the failure
\* of pre-review-gates; the other sub-step is not cancelled, it still settles
\* by itself as long as the process lives
GateFailed == \E s \in SubSteps : gates[s] = "failed"

C21_FailureSurfaced ==
  GateFailed =>
    /\ wphase = "pre-review-gates"
    /\ wpc \in {"await", "halted", "crashed", "aborted"}
    /\ wpc = "halted" => LastStep = Entry("pre-review-gates", "failed", "error")

Own(c) == c.id = WTask.id /\ c.source = WTask.source

C22_AbortStep ==
  (wpc # "aborted" /\ wpc' = "aborted") =>
    /\ wpc \notin {"off", "shipped"}
    /\ registry'.tasks = SelectSeq(registry.tasks, LAMBDA c : ~Own(c))
    /\ statusFile' = statusFile

C22_Abort ==
  /\ [][C22_AbortStep]_vars
  /\ [](wpc = "aborted" => \A k \in 1..Len(registry.tasks) : ~Own(registry.tasks[k]))

C22_Witness ==
  /\ wpc = "aborted"
  /\ wphase = "implementation"
  /\ statusFile.exists /\ statusFile.intact
  /\ LastStep = Entry("implementation", "started", "null")
  /\ registry.tasks = <<ClaimRecord(StringOfNat(1), "gitlab", Path.wt2, Branch.fix2)>>

\* C23: the ClaimRecord of a task exists from the moment an instance has
\* selected it until that instance terminates: an instance that has selected
\* a task and has not terminated (nor been told AlreadyClaimed) finds its own
\* entry for the task in the registry, so that no other discovery offers it
C23_ClaimedFromSelection ==
  \A i \in Instances :
    ipc[i] \in {"selected", "claim_locked", "claim_read", "claimed"} =>
      \E k \in 1..Len(registry.tasks) :
        /\ registry.tasks[k].id = itask[i].id
        /\ registry.tasks[k].source = itask[i].source

\* C24: in every execution, a run continued by --resume from any checkpoint
\* log included, the run is handed to /ship only after the review was
\* approved, then the delivery validation passed, then the docs update
\* completed: the log of a shipped instance holds these three completed
\* checkpoints in this order
C24_ShipAfterApprovals ==
  wpc = "shipped" =>
    \E a, b, c \in 1..Len(Steps) :
      /\ a < b /\ b < c
      /\ Steps[a].step = "review-approved" /\ Steps[a].status = "completed"
      /\ Steps[b].step = "delivery-validation-passed" /\ Steps[b].status = "completed"
      /\ Steps[c].step = "docs-updated" /\ Steps[c].status = "completed"

\* C29: on resume, when the last entry of the log has the status started or
\* failed, the phase the run resumes at is not the phase that follows that
\* unfinished step: the unfinished phase is run again, not skipped
C29_UnfinishedNotSkipped ==
  (/\ rpc = "resumed"
   /\ LastStep.status \in {"started", "failed"}
   /\ LastStep.step \in DOMAIN stepToPhase)
    => resumePhase # stepToPhase[LastStep.step]

\* C28: a failure of a worker during a phase is recorded as a failed
\* checkpoint of that phase before the machine halts, and the halted instance
\* can be resumed: its log is there, whole, and ends with that failed
\* checkpoint, and its registry claim is still there
C28_HaltedResumable ==
  wpc = "halted" =>
    /\ statusFile.exists /\ statusFile.intact
    /\ Steps # <<>>
    /\ LastStep.step = wphase /\ LastStep.status = "failed"
    /\ \E k \in 1..Len(registry.tasks) : Own(registry.tasks[k])

\* C26: recordStep preserves every field it does not own: a checkpoint write
\* that returns leaves every top-level and nested field of the document as
\* it was, apart from steps, workflow.lastActivityAt, workflow.currentPhase
\* and resume.resumeFromStep
C26_FrameStep ==
  (statusFile.exists /\ statusFile' # statusFile /\ wpc' # "crashed") =>
    [statusFile' EXCEPT !.steps = statusFile.steps,
                        !.workflow.lastActivityAt = statusFile.workflow.lastActivityAt,
                        !.workflow.currentPhase = statusFile.workflow.currentPhase,
                        !.resume.resumeFromStep = statusFile.resume.resumeFromStep]
      = statusFile

C26_Frame == [][C26_FrameStep]_vars

C26_Witness ==
  /\ Len(Steps) >= 3
  /\ statusFile.task.title = "set"
  /\ statusFile.workflow.other = "set"
  /\ statusFile.resume.other = "set"
  /\ statusFile.workflow.lastActivityAt = "now"
  /\ wpc = "between"

\* C33: after any sequence of recordStep calls, in a log that can be read
\* workflow.currentPhase and resume.resumeFromStep both equal the step name
\* of the last entry of steps, and an entry has a non-null completedAt if and
\* only if its status is completed
C33_LogConsistent ==
  (statusFile.exists /\ statusFile.intact /\ Steps # <<>>) =>
    /\ statusFile.workflow.currentPhase = LastStep.step
    /\ statusFile.resume.resumeFromStep = LastStep.step
    /\ \A k \in 1..Len(Steps) :
         (Steps[k].completedAt # "null") <=> (Steps[k].status = "completed")

C33_Witness ==
  /\ statusFile.exists /\ statusFile.intact
  /\ Len(Steps) >= 3
  /\ LastStep.status = "failed"
  /\ LastStep.completedAt = "null"
  /\ statusFile.resume.resumeFromStep = LastStep.step
  /\ \E k \in 1..Len(Steps) : Steps[k].completedAt = "now"

\* the answers select the cached preference
LastUsed(answers) == includes(answers.source, Tail(LAST_USED))

\* C31: parseAndCachePolicy saves the source preference exactly when it
\* returns normally and the resolved source is not "other" (and, for
\* "gh-projects", projectNumber and owner are present): after such a call the
\* cached preference is the taskSource it returned, and after every other
\* call (a throw, or the source "other") the cache is as it was before, so
\* the cache always holds the taskSource of the most recent successful call
\* with another source than "other"
C31_SaveStep ==
  (calls' = calls + 1) =>
    LET taskSource == outcome'.policy.taskSource
        saves == /\ ~outcome'.threw
                 /\ taskSource.source # "other"
                 /\ taskSource.source = "gh-projects" =>
                      (taskSource.projectNumber # 0 /\ taskSource.owner # <<>>)
    IN IF saves THEN getPreference(sourceCache') = taskSource
                ELSE sourceCache' = sourceCache

C31_SavedExactly == [][C31_SaveStep]_vars

C31_Witness ==
  /\ calls = 3
  /\ ~outcome.threw
  /\ outcome.policy.taskSource.source = "other"
  /\ outcome.policy.taskSource.description = Name(2)
  /\ getPreference(sourceCache).source = "gh-projects"
  /\ getPreference(sourceCache).projectNumber = 42
  /\ getPreference(sourceCache).owner = <<"o","r","g","_","1">>

\* the four rejections of C32, told from the answers and the cache before
\* the call
Rejected(answers, store) ==
  LET cached == getPreference(store)
      projects ==
        \/ ~LastUsed(answers)
           /\ answers.source = <<"G","i","t","H","u","b"," ","P","r","o","j","e","c","t","s">>
        \/ LastUsed(answers) /\ cached.source = "gh-projects"
  IN \/ LastUsed(answers) /\ cached.source = "null"
     \/ /\ projects
        /\ answers.project # <<>>
        /\ \/ ~IsProjectNumber(trim(answers.project[1].number))
           \/ ~IsOwner(trim(answers.project[1].owner))
     \/ /\ projects
        /\ answers.project = <<>>
        /\ ~(LastUsed(answers) /\ cached.projectNumber # 0 /\ cached.owner # <<>>)

\* C32: whenever parseAndCachePolicy rejects its input ("(last used)" with
\* an empty cache, a project number that is not a positive integer, an owner
\* that is neither @me nor a valid name, GitHub Projects with neither
\* follow-up data nor cached number and owner) it throws, and a call that
\* throws leaves the preference cache exactly as it was before the call
C32_RejectStep ==
  (calls' = calls + 1) =>
    /\ Rejected(responses', sourceCache) => outcome'.threw
    /\ outcome'.threw => sourceCache' = sourceCache

C32_RejectLeavesCache == [][C32_RejectStep]_vars

C32_Witness ==
  /\ calls >= 2
  /\ outcome.threw
  /\ outcome.error = "Invalid project owner"
  /\ responses.project[1].owner = <<"-","x">>
  /\ getPreference(sourceCache).source = "gitlab"

\* the order of a ranked list, and the hours by which a second run may come
\* after the first
Order(top) == [k \in 1..Len(top) |-> top[k].idx]
Delays == 1..MaxDelayHours

\* a second run of the ranking d hours after the one that has just ended
\* (dpc = "phase4")
RankedLater(d) ==
  Order(Rank(Later(tasks, d), claimedIds, prLinkedIssues, policy.priorityFilter).topTasks)

\* task t is a dated bug that passes the age of 30 days within d hours
Crosses(t, d) ==
  /\ t.createdAt
  /\ Keyword.bug \in LowerLabels(t)
  /\ t.ageHours <= AgeLimitDays * HoursPerDay
  /\ t.ageHours + d > AgeLimitDays * HoursPerDay

\* C27 as stated: two runs of the ranking on the same candidates, claimed
\* set, in-flight set and policy give the same order, whenever they are run
C27_SameWheneverRun ==
  dpc = "phase4" => \A d \in Delays : RankedLater(d) = Order(topTasks)

\* C27 as amended: two runs of the ranking on the same candidates, claimed
\* set, in-flight set and policy give the same order whenever they are run,
\* provided no dated bug-labelled candidate passes the age of 30 days between
\* the two runs
C27_SameUnlessAged ==
  dpc = "phase4" =>
    \A d \in Delays :
      (\A k \in 1..Len(tasks) : ~Crosses(tasks[k], d)) =>
        RankedLater(d) = Order(topTasks)

C27_Witness ==
  /\ dpc = "phase4"
  /\ Len(topTasks) = 2
  /\ tasks[2].createdAt /\ Keyword.bug \in tasks[2].labels
  /\ tasks[2].ageHours = AgeLimitDays * HoursPerDay + 1
  /\ Order(topTasks) = <<2, 1>>
  /\ RankedLater(MaxDelayHours) = <<2, 1>>

\* C25: for every task number and every title the label that truncateLabel
\* returns is at most 30 characters long
C25_LabelAtMost30 ==
  lpc = "labelled" => Len(lout.label) <= 30

\* C30: for every cached preference the first source option of
\* getPolicyQuestions has a label of at most 30 characters, made of a base of
\* at most 18 characters and ' (last used)', and its description ends with
\* the full label, not cut
C30_CachedLabelAtMost30 ==
  (lpc = "asked" /\ lin.cached.source # "null") =>
    /\ Len(lout.label) <= 30
    /\ Len(lout.label) - Len(LAST_USED) <= 18
    /\ endsWith(lout.label, LAST_USED)
    /\ lout.description = USE_PREVIOUS \o cachedLabel(lin.cached)

=============================================================================
